---- MODULE Spec2Model ----
(***************************************************************************)
(* The tool bridge of AskElephant/stampede (packages/code-mode):           *)
(*   - scope authorization (BaseToolBridgeProtocol.checkAuthorization and   *)
(*     the tRPC router's requireScopes middleware),                         *)
(*   - the fixed-window rate limiter (checkRateLimit),                      *)
(*   - execution tokens (createExecutionToken / verifyExecutionToken),      *)
(*   - dispatch (BaseToolBridgeProtocol.executeToolWithChecks),             *)
(*   - the tRPC request handler (createContextFactory + procedure chain).   *)
(*   - the orchestrator (CodeMode.initialize / executeCode / cleanup and    *)
(*     parseToolCallsFromOutput),                                          *)
(*   - the proxies of the generated client runtimes.                       *)
(*                                                                         *)
(* Each subsystem has its own specification over the shared variables; a   *)
(* specification leaves the variables of the other subsystems at their     *)
(* idle values.                                                            *)
(***************************************************************************)
EXTENDS Integers, Sequences, FiniteSets, TLC

VARIABLES
    now,              \* Date.now(), in milliseconds
    ticks,            \* number of clock advances so far (bounded by MaxTicks)
    az_ctx,           \* authorization: the execution context under test
    az_req,           \* authorization: tool.requiredScopes (optional list)
    az_auth,          \* authorization: result of the base path (optional boolean)
    az_router,        \* authorization: result of the router path (optional boolean)
    rateLimitStore,   \* BaseToolBridgeProtocol.rateLimitStore: userId -> optional entry
    rl_last,          \* rate limiter: the last checkRateLimit call and its result
    rl_max,           \* rate limiter: maxPerMinute, the limit every call passes
    rl_calls,         \* rate limiter: per user, calls made in the current window
    rl_denied,        \* rate limiter: per user, the latest denial not yet followed by a call
    tok,              \* tokens: the token in flight (optional)
    tok_issue,        \* tokens: who issued tok, with which config, when (optional)
    tv_last,          \* tokens: the verification just made, at the current clock reading
    tools,            \* the tool registry's Map, in insertion order
    bp_config,        \* BaseToolBridgeProtocol.config (optional)
    bp_registry,      \* BaseToolBridgeProtocol.registry (optional reference)
    bd_last,          \* dispatch: the last executeToolWithChecks call and its result
    bd_k,             \* dispatch: per user and tool, dispatches in the user's current window
    bd_n,             \* dispatch: number of executeToolWithChecks calls so far
    trpcRateLimitStore, \* trpc/server.ts rateLimitStore (module level)
    rt_router,        \* TRPCToolBridgeProtocol.router (optional)
    rq_last,          \* endpoint: the last request handled and its response
    cm_initialized,   \* CodeMode.initialized
    cm_dependenciesInstalled, \* CodeMode.dependenciesInstalled
    cm_protocolName,  \* CodeMode.bridgeProtocol.name
    cm_call,          \* orchestrator: per caller, the call in flight and its position
    cm_events,        \* orchestrator: how often each collaborator method was invoked
    cm_life,          \* orchestrator: the last lifecycle operation that completed
    cm_n,             \* orchestrator: number of calls started so far
    ex_config,        \* executeCode: the ExecutionConfig of the call that minted tok
    tr_output,        \* executeCode: result.output of the sandbox, as its lines
    tr_result,        \* executeCode: what the call returned for tr_output (optional)
    st_call,          \* generated stub: per caller, the proxy call in flight
    st_console,       \* generated stub: the lines written with console.log
    rg_options,       \* registry: the options createToolRegistry was called with
    rg_history,       \* registry: every definition registered so far, in order
    rg_last,          \* registry: the last register or executeTool call and its outcome
    rg_text,         \* registry: the text generateTypeDefinitions returned last (optional)
    run_calls,       \* the proxy calls of a run that logged their start, in order
    dp_call,          \* where each caller's dispatch waits
    dp_passed,        \* dispatches that passed the rate-limit check in the window open now
    dp_allowedAt,    \* the times of the dispatches that passed the check, in order
    sp_state,         \* BaseSandboxProvider.state
    sp_initializationPromise,  \* BaseSandboxProvider.initializationPromise: null or the promise's state
    sp_call,          \* the initialize, executeCode and cleanup calls in flight on the provider
    sp_events,        \* how often doInitialize, doExecuteCode and doCleanup were invoked
    sp_hist,          \* what has happened to the provider so far
    sp_n,            \* number of calls made on the provider
    lc_call,          \* the orchestrator's calls in flight on a BaseSandboxProvider
    lc_fresh,         \* initialize has resolved and no cleanup has run since
    lc_last,          \* what the last isReady call or submission observed
    lc_n,            \* number of calls made on that orchestrator
    cm_installed,    \* an installDependencies call has succeeded since the last initialize or cleanup
    ss_calls         \* executeCode: the config and the execution context of each invocation

clockVars == <<now, ticks>>

authzVars == <<az_ctx, az_req, az_auth, az_router>>

rateVars == <<rateLimitStore, rl_last, rl_max, rl_calls, rl_denied>>

tokenVars == <<tok, tok_issue, tv_last>>

bridgeVars == <<tools, bp_config, bp_registry, bd_last, bd_k, bd_n>>

routerVars == <<trpcRateLimitStore, rt_router, rq_last>>

traceVars == <<tr_output, tr_result>>

stubVars == <<st_call, st_console>>

registryVars == <<rg_options, rg_history, rg_last, rg_text>>

runVars == <<run_calls>>

dispatchVars == <<dp_call, dp_passed, dp_allowedAt>>

sandboxVars == <<sp_state, sp_initializationPromise, sp_call, sp_events, sp_hist, sp_n>>

lifecycleVars == <<lc_call, lc_fresh, lc_last, lc_n>>

installVars == <<cm_installed>>

sessionVars == <<ss_calls>>

cmVars == <<cm_initialized, cm_dependenciesInstalled, cm_protocolName, cm_call,
            cm_events, cm_life, cm_n, ex_config, traceVars, stubVars,
            registryVars,
            runVars,
            dispatchVars,
            sandboxVars,
            lifecycleVars,
            installVars,
            sessionVars>>

vars == <<now, ticks, az_ctx, az_req, az_auth, az_router,
          rateLimitStore, rl_last, rl_max, rl_calls, rl_denied,
          tok, tok_issue, tv_last,
          tools, bp_config, bp_registry, bd_last, bd_k, bd_n,
          trpcRateLimitStore, rt_router, rq_last,
          cm_initialized, cm_dependenciesInstalled, cm_protocolName, cm_call,
          cm_events, cm_life, cm_n, ex_config,
          tr_output, tr_result, st_call, st_console,
          rg_options, rg_history, rg_last, rg_text,
          run_calls,
          dp_call, dp_passed, dp_allowedAt,
          sp_state, sp_initializationPromise, sp_call, sp_events, sp_hist, sp_n,
          lc_call, lc_fresh, lc_last, lc_n,
          cm_installed,
          ss_calls>>

(***************************************************************************)
(* Optional values (undefined | v) are sequences of length 0 or 1.         *)
(***************************************************************************)
Undefined == <<>>

Some(v) == <<v>>

IsDefined(x) == x # <<>>

\* JavaScript's x ?? d
OrElse(x, d) == IF x = <<>> THEN d ELSE x[1]

\* Array.prototype.includes
Includes(arr, x) == \E i \in 1..Len(arr) : arr[i] = x

Range(arr) == {arr[i] : i \in 1..Len(arr)}

(***************************************************************************)
(* Bounds of the model.                                                    *)
(***************************************************************************)
MaxScopes == 2

MaxTicks == 3

MaxLimit == 2

MaxCalls == 3

MaxDispatches == 3

MaxOps == 5

MaxSandboxOps == 4

MaxLifecycleOps == 4

MaxSessions == 3

Scopes == {"*", "read", "admin"}

ScopeLists == UNION {[1..n -> Scopes] : n \in 0..MaxScopes}

UserIds == {"u1", "u2"}

(***************************************************************************)
(* The clock.  Date.now() is read in milliseconds; it advances by one of   *)
(* a few steps that land on, just before and just after the boundaries the *)
(* code compares against.                                                  *)
(***************************************************************************)
ClockIdle == now = 0 /\ ticks = 0

Tick(deltas) ==
    /\ ticks < MaxTicks
    /\ \E d \in deltas : now' = now + d
    /\ ticks' = ticks + 1

\* Math.ceil(x / d) for an integer x and d > 0
Ceil(x, d) == -((-x) \div d)

(***************************************************************************)
(* The fixed-window rate limiter.                                          *)
(***************************************************************************)
Limits == 0..MaxLimit

\* a checkRateLimit without `entry.count++`
checkRateLimit_NoIncrement(store, userId, maxPerMinute, t) ==
    LET entry == store[userId]
    IN  IF ~IsDefined(entry) \/ t > entry[1].resetTime
        THEN [store  |-> [store EXCEPT ![userId] =
                            Some([count |-> 1, resetTime |-> t + 60000])],
              result |-> [allowed |-> TRUE,
                          remaining |-> maxPerMinute - 1,
                          resetIn |-> 60]]
        ELSE IF entry[1].count >= maxPerMinute
        THEN [store  |-> store,
              result |-> [allowed |-> FALSE,
                          remaining |-> 0,
                          resetIn |-> Ceil(entry[1].resetTime - t, 1000)]]
        ELSE [store  |-> store,
              result |-> [allowed |-> TRUE,
                          remaining |-> maxPerMinute - (entry[1].count + 1),
                          resetIn |-> Ceil(entry[1].resetTime - t, 1000)]]

\* a checkRateLimit whose window ends with the call that opens it
checkRateLimit_NoWindow(store, userId, maxPerMinute, t) ==
    LET entry == store[userId]
    IN  IF ~IsDefined(entry) \/ t > entry[1].resetTime
        THEN [store  |-> [store EXCEPT ![userId] =
                            Some([count |-> 1, resetTime |-> t])],
              result |-> [allowed |-> TRUE,
                          remaining |-> maxPerMinute - 1,
                          resetIn |-> 60]]
        ELSE IF entry[1].count >= maxPerMinute
        THEN [store  |-> store,
              result |-> [allowed |-> FALSE,
                          remaining |-> 0,
                          resetIn |-> Ceil(entry[1].resetTime - t, 1000)]]
        ELSE [store  |-> [store EXCEPT ![userId] =
                            Some([count |-> entry[1].count + 1,
                                  resetTime |-> entry[1].resetTime])],
              result |-> [allowed |-> TRUE,
                          remaining |-> maxPerMinute - (entry[1].count + 1),
                          resetIn |-> Ceil(entry[1].resetTime - t, 1000)]]

\* a checkRateLimit that counts the calls it denies too
checkRateLimit_CountsDenial(store, userId, maxPerMinute, t) ==
    LET entry == store[userId]
    IN  IF ~IsDefined(entry) \/ t > entry[1].resetTime
        THEN [store  |-> [store EXCEPT ![userId] =
                            Some([count |-> 1, resetTime |-> t + 60000])],
              result |-> [allowed |-> TRUE,
                          remaining |-> maxPerMinute - 1,
                          resetIn |-> 60]]
        ELSE IF entry[1].count >= maxPerMinute
        THEN [store  |-> [store EXCEPT ![userId] =
                            Some([count |-> entry[1].count + 1,
                                  resetTime |-> entry[1].resetTime])],
              result |-> [allowed |-> FALSE,
                          remaining |-> 0,
                          resetIn |-> Ceil(entry[1].resetTime - t, 1000)]]
        ELSE [store  |-> [store EXCEPT ![userId] =
                            Some([count |-> entry[1].count + 1,
                                  resetTime |-> entry[1].resetTime])],
              result |-> [allowed |-> TRUE,
                          remaining |-> maxPerMinute - (entry[1].count + 1),
                          resetIn |-> Ceil(entry[1].resetTime - t, 1000)]]

\* BaseToolBridgeProtocol.checkRateLimit(userId, maxPerMinute) on the store
\* `store`, at Date.now() = t: the new store and the returned object.
\* The key `rate:${userId}` is one to one with userId.
checkRateLimit(store, userId, maxPerMinute, t) ==
    LET entry == store[userId]
    IN  IF ~IsDefined(entry) \/ t > entry[1].resetTime
        THEN [store  |-> [store EXCEPT ![userId] =
                            Some([count |-> 1, resetTime |-> t + 60000])],
              result |-> [allowed |-> TRUE,
                          remaining |-> maxPerMinute - 1,
                          resetIn |-> 60]]
        ELSE IF entry[1].count >= maxPerMinute
        THEN [store  |-> store,
              result |-> [allowed |-> FALSE,
                          remaining |-> 0,
                          resetIn |-> Ceil(entry[1].resetTime - t, 1000)]]
        ELSE [store  |-> [store EXCEPT ![userId] =
                            Some([count |-> entry[1].count + 1,
                                  resetTime |-> entry[1].resetTime])],
              result |-> [allowed |-> TRUE,
                          remaining |-> maxPerMinute - (entry[1].count + 1),
                          resetIn |-> Ceil(entry[1].resetTime - t, 1000)]]

EmptyStore == [u \in UserIds |-> Undefined]

\* whether a call at time t falls into the window the store holds for userId
InWindow(store, userId, t) ==
    IsDefined(store[userId]) /\ t <= store[userId][1].resetTime

(***************************************************************************)
(* Scope authorization.                                                    *)
(***************************************************************************)

\* checkAuthorization without the check for a wildcard held by the context
checkAuthorization_NoWildcardHolder(context, requiredScopes) ==
    IF Len(requiredScopes) = 0 \/ Includes(requiredScopes, "*")
    THEN TRUE
    ELSE \E i \in 1..Len(requiredScopes) :
            Includes(context.scopes, requiredScopes[i])

\* BaseToolBridgeProtocol.checkAuthorization(context, requiredScopes)
checkAuthorization(context, requiredScopes) ==
    IF Len(requiredScopes) = 0 \/ Includes(requiredScopes, "*")
    THEN TRUE
    ELSE \E i \in 1..Len(requiredScopes) :
            \/ Includes(context.scopes, requiredScopes[i])
            \/ Includes(context.scopes, "*")

\* createTRPCRouter: const scopes = tool.requiredScopes ?? ["*"]
routerScopes(tool) == OrElse(tool.requiredScopes, <<"*">>)

\* requireScopes(...requiredScopes) middleware: hasScope
\* (userScopes = ctx.executionContext?.scopes ?? [])
requireScopes(requiredScopes, executionContext) ==
    LET userScopes == IF IsDefined(executionContext)
                      THEN executionContext[1].scopes ELSE <<>>
    IN  \E i \in 1..Len(requiredScopes) :
            \/ Includes(userScopes, requiredScopes[i])
            \/ Includes(userScopes, "*")
            \/ requiredScopes[i] = "*"

AuthzContexts == [userId : {"u1"}, sessionId : {"s1"}, scopes : ScopeLists]

(***************************************************************************)
(* Execution tokens.  A token is a JWT signed with HS256: `payload` is its *)
(* claims set, `sigKey` the key its signature was made with, and `intact`  *)
(* says whether the payload is still the one that was signed.  A string    *)
(* that is no JWT at all has wellFormed = FALSE.                           *)
(***************************************************************************)
Secrets == {"k1", "k2"}

Expirations == {Undefined, Some(1)}

Audiences == {Undefined, Some("aud-a")}

TokenConfigs ==
    [secretKey : Secrets, expirationSeconds : Expirations, audience : Audiences]

TokenContexts ==
    [userId : {"u1"}, sessionId : {"s1"},
     organizationId : {Undefined, Some("org-1")},
     scopes : {<<"read">>},
     metadata : {Undefined}]

\* jose: epoch(date) = Math.floor(date.getTime() / 1000)
epoch(ms) == ms \div 1000

\* A metadata object (Record<string, unknown>) is the set of its entries;
\* an entry's value is a string, a Date (v is its toISOString()) or
\* undefined.
StringEntry(k, v) == [key |-> k, type |-> "string", v |-> v]

DateEntry(k, iso) == [key |-> k, type |-> "Date", v |-> iso]

UndefinedEntry(k) == [key |-> k, type |-> "undefined", v |-> ""]

\* JSON.parse(JSON.stringify(object)): the claims set travels in the token
\* as JSON text, which omits a property whose value is undefined and writes
\* a Date as the string of its toJSON()
JSONobject(object) ==
    {[e EXCEPT !.type = "string"] : e \in {x \in object : x.type # "undefined"}}

\* the claims as the verifier reads them back from the token's payload
JSONclaims(claims) ==
    [claims EXCEPT !.metadata = IF IsDefined(@) THEN Some(JSONobject(@[1])) ELSE Undefined]

\* new SignJWT(claims).setIssuedAt().setExpirationTime(`${s}s`)
\*   .setSubject(sub).setAudience(aud).sign(secret), at Date.now() = t
SignJWT(claims, sub, aud, expirationSeconds, secret, t) ==
    [wellFormed |-> TRUE,
     payload    |-> [claims |-> JSONclaims(claims),
                     iat |-> epoch(t),
                     exp |-> epoch(t) + expirationSeconds,
                     sub |-> sub,
                     aud |-> aud],
     sigKey     |-> secret,
     intact     |-> TRUE]

\* jose: jwtVerify(token, secret, { audience }) at Date.now() = t.  It throws
\* JWSInvalid for a string that is no JWS, JWSSignatureVerificationFailed
\* for a signature the key does not verify, JWTClaimValidationFailed for an
\* "aud" other than the expected one (checked only when an audience is
\* given) and JWTExpired when exp <= epoch(now); otherwise it returns the
\* payload.
jwtVerify(token, secret, audience, t) ==
    IF ~token.wellFormed
    THEN [ok |-> FALSE, error |-> "JWSInvalid"]
    ELSE IF ~(token.intact /\ token.sigKey = secret)
    THEN [ok |-> FALSE, error |-> "JWSSignatureVerificationFailed"]
    ELSE IF IsDefined(audience) /\ token.payload.aud # audience[1]
    THEN [ok |-> FALSE, error |-> "JWTClaimValidationFailed"]
    ELSE IF token.payload.exp <= epoch(t)
    THEN [ok |-> FALSE, error |-> "JWTExpired"]
    ELSE [ok |-> TRUE, payload |-> token.payload]

\* a verifier reading payload.userId as the session id too
decodeContext_SubjectAsSession(payload) ==
    [userId         |-> payload.claims.userId,
     sessionId      |-> payload.claims.userId,
     organizationId |-> payload.claims.organizationId,
     scopes         |-> payload.claims.scopes,
     metadata       |-> payload.claims.metadata]

\* the ExecutionContext both verifiers build from a verified payload
decodeContext(payload) ==
    [userId         |-> payload.claims.userId,
     sessionId      |-> payload.claims.sessionId,
     organizationId |-> payload.claims.organizationId,
     scopes         |-> payload.claims.scopes,
     metadata       |-> payload.claims.metadata]

NullResult == [kind |-> "null"]

ContextResult(c) == [kind |-> "context", context |-> c]

ThrowResult(e) == [kind |-> "throw", error |-> e]

\* createExecutionToken ignoring config.expirationSeconds
createExecutionToken_FixedLifetime(config, context, t) ==
    SignJWT([userId         |-> context.userId,
             sessionId      |-> context.sessionId,
             organizationId |-> context.organizationId,
             scopes         |-> context.scopes,
             metadata       |-> context.metadata],
            Some(context.userId), OrElse(config.audience, "tool-bridge"),
            300, config.secretKey, t)

\* utils/token.ts createExecutionToken(config, context)
createExecutionToken(config, context, t) ==
    LET expirationSeconds == OrElse(config.expirationSeconds, 300)
        audience          == OrElse(config.audience, "tool-bridge")
    IN  SignJWT([userId         |-> context.userId,
                 sessionId      |-> context.sessionId,
                 organizationId |-> context.organizationId,
                 scopes         |-> context.scopes,
                 metadata       |-> context.metadata],
                Some(context.userId), audience, expirationSeconds,
                config.secretKey, t)

\* verifyExecutionToken passing no audience option to jwtVerify
verifyExecutionToken_NoAudience(config, token, t) ==
    LET r == jwtVerify(token, config.secretKey, Undefined, t)
    IN  IF r.ok THEN ContextResult(decodeContext(r.payload)) ELSE NullResult

\* utils/token.ts verifyExecutionToken(config, token)
verifyExecutionToken(config, token, t) ==
    LET audience == OrElse(config.audience, "tool-bridge")
        r        == jwtVerify(token, config.secretKey, Some(audience), t)
    IN  IF r.ok THEN ContextResult(decodeContext(r.payload)) ELSE NullResult

\* TRPCToolBridgeProtocol.createExecutionToken(context); `config` is
\* this.config.tokenConfig (the protocol is initialized)
trpcCreateExecutionToken(config, context, t) ==
    LET expirationSeconds == OrElse(config.expirationSeconds, 300)
    IN  SignJWT(context, Undefined,
                OrElse(config.audience, "tool-bridge-trpc"),
                expirationSeconds, config.secretKey, t)

\* TRPCToolBridgeProtocol.verifyExecutionToken(token); `config` is the
\* optional this.config.tokenConfig (Undefined before initialize)
trpcVerifyExecutionToken(config, token, t) ==
    IF ~IsDefined(config) THEN NullResult
    ELSE LET r == jwtVerify(token, config[1].secretKey,
                            Some(OrElse(config[1].audience, "tool-bridge-trpc")),
                            t)
         IN  IF r.ok THEN ContextResult(decodeContext(r.payload)) ELSE NullResult

(***************************************************************************)
(* The tool registry and dispatch.  A tool definition keeps what dispatch  *)
(* reads: name, requiredScopes and rateLimit (both optional).  Whether an  *)
(* input passes the tool's inputSchema, and whether the tool's executor    *)
(* returns or throws, are given with each call.                            *)
(***************************************************************************)
ToolNames == {"alpha", "beta"}

Inputs == {"valid", "invalid"}

\* what the tool's executor does: it returns, throws an Error, or throws a
\* value that is no Error
Behaviours == {"returns", "throws", "throwsValue"}

\* Map.prototype.get on the registry's tools
get(registryTools, name) ==
    IF \E i \in 1..Len(registryTools) : registryTools[i].name = name
    THEN Some(registryTools[CHOOSE i \in 1..Len(registryTools) :
                                registryTools[i].name = name])
    ELSE Undefined

\* createToolRegistry().executeTool(name, input, context): what it settles
\* with, and how often it invoked tool.execute
executeTool(registryTools, name, input, context, behaviour) ==
    LET tool == get(registryTools, name)
    IN  IF ~IsDefined(tool)
        THEN [settled |-> "rejected", value |-> "Unknown tool", isError |-> TRUE,
              executorCalls |-> 0]
        ELSE IF input # "valid"
        THEN [settled |-> "rejected", value |-> "Invalid input for tool",
              isError |-> TRUE, executorCalls |-> 0]
        ELSE IF behaviour = "throws"
        THEN [settled |-> "rejected", value |-> "executor error", isError |-> TRUE,
              executorCalls |-> 1]
        ELSE IF behaviour = "throwsValue"
        THEN [settled |-> "rejected", value |-> "executor value", isError |-> FALSE,
              executorCalls |-> 1]
        ELSE [settled |-> "resolved", value |-> "output", isError |-> FALSE,
              executorCalls |-> 1]

Failure(code) == [success |-> FALSE, code |-> code]

\* executeToolWithChecks: const limit = tool.rateLimit ?? this.config.defaultRateLimit ?? 60
toolLimit(tool, config) ==
    OrElse(tool.rateLimit, OrElse(config.defaultRateLimit, 60))

\* this.config?.enableRateLimiting, as a condition
rateLimitingEnabled(config) ==
    IsDefined(config) /\ OrElse(config[1].enableRateLimiting, FALSE)

\* a dispatcher that consults the rate limiter before it authorizes
executeToolWithChecks_RateLimitFirst(registry, registryTools, config, store, toolName, input, context, behaviour, t) ==
    IF ~IsDefined(registry)
    THEN [result |-> Failure("NOT_INITIALIZED"), store |-> store, executorCalls |-> 0,
                   settled |-> "resolved", thrown |-> Undefined]
    ELSE LET tool == get(registryTools, toolName)
         IN  IF ~IsDefined(tool)
             THEN [result |-> Failure("NOT_FOUND"), store |-> store,
                   executorCalls |-> 0,
                   settled |-> "resolved", thrown |-> Undefined]
             ELSE LET rateCheck ==
                        IF rateLimitingEnabled(config)
                        THEN checkRateLimit(store, context.userId,
                                            toolLimit(tool[1], config[1]), t)
                        ELSE [store |-> store, result |-> [allowed |-> TRUE]]
                  IN  IF ~rateCheck.result.allowed
                      THEN [result |-> Failure("RATE_LIMITED"),
                            store |-> rateCheck.store, executorCalls |-> 0,
                   settled |-> "resolved", thrown |-> Undefined]
                      ELSE IF ~checkAuthorization(context,
                                     OrElse(tool[1].requiredScopes, <<>>))
                      THEN [result |-> Failure("FORBIDDEN"),
                            store |-> rateCheck.store, executorCalls |-> 0,
                   settled |-> "resolved", thrown |-> Undefined]
                      ELSE LET e == executeTool(registryTools, toolName, input,
                                                context, behaviour)
                           IN  [result |->
                                   IF e.settled = "resolved"
                                   THEN [success |-> TRUE, result |-> e.value]
                                   ELSE [success |-> FALSE,
                                         code |-> "EXECUTION_ERROR",
                                         message |-> IF e.isError THEN e.value
                                                     ELSE "Unknown error"],
                                store |-> rateCheck.store,
                                executorCalls |-> e.executorCalls,
                                settled |-> "resolved",
                                thrown |-> IF e.settled = "resolved" THEN Undefined
                                           ELSE Some([isError |-> e.isError,
                                                      value |-> e.value])]

\* BaseToolBridgeProtocol.executeToolWithChecks(toolName, input, context) at
\* Date.now() = t: the ToolBridgeResult, the rate-limit store it leaves and
\* the number of times the tool's executor ran
executeToolWithChecks(registry, registryTools, config, store, toolName, input, context, behaviour, t) ==
    IF ~IsDefined(registry)
    THEN [result |-> Failure("NOT_INITIALIZED"), store |-> store, executorCalls |-> 0,
                   settled |-> "resolved", thrown |-> Undefined]
    ELSE LET tool == get(registryTools, toolName)
         IN  IF ~IsDefined(tool)
             THEN [result |-> Failure("NOT_FOUND"), store |-> store,
                   executorCalls |-> 0,
                   settled |-> "resolved", thrown |-> Undefined]
             ELSE IF ~checkAuthorization(context, OrElse(tool[1].requiredScopes, <<>>))
             THEN [result |-> Failure("FORBIDDEN"), store |-> store,
                   executorCalls |-> 0,
                   settled |-> "resolved", thrown |-> Undefined]
             ELSE LET rateCheck ==
                        IF rateLimitingEnabled(config)
                        THEN checkRateLimit(store, context.userId,
                                            toolLimit(tool[1], config[1]), t)
                        ELSE [store |-> store, result |-> [allowed |-> TRUE]]
                  IN  IF ~rateCheck.result.allowed
                      THEN [result |-> Failure("RATE_LIMITED"),
                            store |-> rateCheck.store, executorCalls |-> 0,
                   settled |-> "resolved", thrown |-> Undefined]
                      ELSE LET e == executeTool(registryTools, toolName, input,
                                                context, behaviour)
                           IN  [result |->
                                   IF e.settled = "resolved"
                                   THEN [success |-> TRUE, result |-> e.value]
                                   ELSE [success |-> FALSE,
                                         code |-> "EXECUTION_ERROR",
                                         message |-> IF e.isError THEN e.value
                                                     ELSE "Unknown error"],
                                store |-> rateCheck.store,
                                executorCalls |-> e.executorCalls,
                                settled |-> "resolved",
                                thrown |-> IF e.settled = "resolved" THEN Undefined
                                           ELSE Some([isError |-> e.isError,
                                                      value |-> e.value])]

(***************************************************************************)
(* The tRPC endpoint: the router createTRPCRouter builds, the context      *)
(* factory, and the procedure chain                                        *)
(*   isAuthenticated -> requireScopes -> rateLimit -> input -> resolver.   *)
(* An Authorization header is Undefined or a scheme followed by a token.   *)
(***************************************************************************)
TRPCEmptyStore == [u \in UserIds \cup {"anonymous"} |-> Undefined]

\* trpc/server.ts checkRateLimit(userId, maxPerMinute) on the module's store
trpcCheckRateLimit(store, userId, maxPerMinute, t) ==
    checkRateLimit(store, userId, maxPerMinute, t)

\* createTRPCRouter(options): the options it keeps (with their defaults) and
\* one procedure per registered tool
createTRPCRouter(registryTools, enableRateLimiting, defaultRateLimit) ==
    [enableRateLimiting |-> OrElse(enableRateLimiting, TRUE),
     procedures |->
        [i \in 1..Len(registryTools) |->
            [name   |-> registryTools[i].name,
             scopes |-> routerScopes(registryTools[i]),
             limit  |-> OrElse(registryTools[i].rateLimit,
                               OrElse(defaultRateLimit, 60))]]]

\* a verifier that lets jwtVerify's exception escape
createTRPCContext_VerifierThrows(tokenConfig, authHeader, t) ==
    IF ~(IsDefined(authHeader) /\ authHeader[1].scheme = "Bearer")
    THEN [settled |-> "resolved", executionContext |-> Undefined]
    ELSE LET r == jwtVerify(authHeader[1].token, tokenConfig[1].secretKey,
                            Some(OrElse(tokenConfig[1].audience,
                                        "tool-bridge-trpc")), t)
         IN  IF r.ok
             THEN [settled |-> "resolved",
                   executionContext |-> Some(decodeContext(r.payload))]
             ELSE [settled |-> "rejected", executionContext |-> Undefined]

\* createContextFactory(verifyToken)({ req }), with verifyToken the
\* protocol's verifyExecutionToken: the context it resolves with
\* (executionContext null is Undefined), or its rejection
createTRPCContext(tokenConfig, authHeader, t) ==
    IF ~(IsDefined(authHeader) /\ authHeader[1].scheme = "Bearer")
    THEN [settled |-> "resolved", executionContext |-> Undefined]
    ELSE LET v == trpcVerifyExecutionToken(tokenConfig, authHeader[1].token, t)
         IN  IF v.kind = "throw"
             THEN [settled |-> "rejected", executionContext |-> Undefined]
             ELSE [settled |-> "resolved",
                   executionContext |->
                       IF v.kind = "context" THEN Some(v.context) ELSE Undefined]

TRPCError(code, message) == [code |-> code, message |-> message]

\* a chain whose rate limiter runs ahead of isAuthenticated
callProcedure_RateLimitFirst(router, registryTools, store, executionContext, toolName, input, behaviour, t) ==
    LET procedure == get(router.procedures, toolName)[1]
        userId    == IF IsDefined(executionContext)
                     THEN executionContext[1].userId ELSE "anonymous"
        rateCheck == IF router.enableRateLimiting
                     THEN trpcCheckRateLimit(store, userId, procedure.limit, t)
                     ELSE [store |-> store, result |-> [allowed |-> TRUE]]
    IN  IF ~rateCheck.result.allowed
        THEN [response |-> TRPCError("TOO_MANY_REQUESTS", "Rate limit exceeded"),
              stages |-> <<"rateLimit">>,
              store |-> rateCheck.store, executorCalls |-> 0]
        ELSE IF ~IsDefined(executionContext)
        THEN [response |-> TRPCError("UNAUTHORIZED",
                                     "Missing or invalid execution token"),
              stages |-> <<"rateLimit", "isAuthenticated">>,
              store |-> rateCheck.store, executorCalls |-> 0]
        ELSE IF ~requireScopes(procedure.scopes, executionContext)
        THEN [response |-> TRPCError("FORBIDDEN", "Missing required scope"),
              stages |-> <<"rateLimit", "isAuthenticated", "requireScopes">>,
              store |-> rateCheck.store, executorCalls |-> 0]
        ELSE IF input # "valid"
        THEN [response |-> TRPCError("BAD_REQUEST", "Input validation failed"),
              stages |-> <<"rateLimit", "isAuthenticated", "requireScopes", "input">>,
              store |-> rateCheck.store, executorCalls |-> 0]
        ELSE LET e == executeTool(registryTools, toolName, input,
                                  executionContext[1], behaviour)
             IN  [response |->
                     IF e.settled = "resolved"
                     THEN [code |-> "OK", message |-> e.value]
                     ELSE TRPCError("INTERNAL_SERVER_ERROR", e.value),
                  stages |-> <<"rateLimit", "isAuthenticated", "requireScopes",
                               "input", "resolver">>,
                  store |-> rateCheck.store,
                  executorCalls |-> e.executorCalls]

\* one call of the procedure built for toolName, with the context the
\* factory made: the response, the stages of the chain that ran, the
\* module's rate-limit store afterwards, and the executor's invocations
callProcedure(router, registryTools, store, executionContext, toolName, input, behaviour, t) ==
    LET procedure == get(router.procedures, toolName)[1]
    IN  IF ~IsDefined(executionContext)
        THEN [response |-> TRPCError("UNAUTHORIZED",
                                     "Missing or invalid execution token"),
              stages |-> <<"isAuthenticated">>,
              store |-> store, executorCalls |-> 0]
        ELSE IF ~requireScopes(procedure.scopes, executionContext)
        THEN [response |-> TRPCError("FORBIDDEN", "Missing required scope"),
              stages |-> <<"isAuthenticated", "requireScopes">>,
              store |-> store, executorCalls |-> 0]
        ELSE LET rateCheck ==
                   IF router.enableRateLimiting
                   THEN trpcCheckRateLimit(store, executionContext[1].userId,
                                           procedure.limit, t)
                   ELSE [store |-> store, result |-> [allowed |-> TRUE]]
             IN  IF ~rateCheck.result.allowed
                 THEN [response |-> TRPCError("TOO_MANY_REQUESTS",
                                              "Rate limit exceeded"),
                       stages |-> <<"isAuthenticated", "requireScopes", "rateLimit">>,
                       store |-> rateCheck.store, executorCalls |-> 0]
                 ELSE IF input # "valid"
                 THEN [response |-> TRPCError("BAD_REQUEST",
                                              "Input validation failed"),
                       stages |-> <<"isAuthenticated", "requireScopes",
                                    "rateLimit", "input">>,
                       store |-> rateCheck.store, executorCalls |-> 0]
                 ELSE LET e == executeTool(registryTools, toolName, input,
                                           executionContext[1], behaviour)
                      IN  [response |->
                              IF e.settled = "resolved"
                              THEN [code |-> "OK", message |-> e.value]
                              ELSE TRPCError("INTERNAL_SERVER_ERROR", e.value),
                           stages |-> <<"isAuthenticated", "requireScopes",
                                        "rateLimit", "input", "resolver">>,
                           store |-> rateCheck.store,
                           executorCalls |-> e.executorCalls]

\* the handler of createRequestHandler() on one request for toolName:
\* fetchRequestHandler builds the context, then calls the procedure; a
\* context factory that rejects is answered with INTERNAL_SERVER_ERROR
handleRequest(router, tokenConfig, registryTools, store, authHeader, toolName, input, behaviour, t) ==
    LET c == createTRPCContext(tokenConfig, authHeader, t)
    IN  IF c.settled = "rejected"
        THEN [response |-> TRPCError("INTERNAL_SERVER_ERROR", "createContext failed"),
              stages |-> <<>>, store |-> store, executorCalls |-> 0]
        ELSE callProcedure(router, registryTools, store, c.executionContext,
                           toolName, input, behaviour, t)

(***************************************************************************)
(* The orchestrator (CodeMode).  Its async methods run from one await to   *)
(* the next without interruption; a caller's call in flight is the method  *)
(* (op), the promise it awaits (pc) and its local variables.               *)
(***************************************************************************)
CallerIds == {"p", "q"}

\* no call in flight; outcome is how the caller's last call settled
IdleCall ==
    [op |-> "none", pc |-> "idle", outcome |-> "none", life |-> "constructed",
     token |-> 0, submitted |-> 0, trace |-> 0]

EventNames ==
    {"sandboxInitialize", "protocolInitialize", "createExecutionToken",
     "installDependencies", "sandboxExecuteCode", "sandboxCleanup", "rejections"}

NoEvents == [e \in EventNames |-> 0]

Invoked(events, e) == [events EXCEPT ![e] = @ + 1]

\* installSandboxDependencies: the protocol has dependencies to install
needsDependencies(protocolName) == protocolName = "trpc"

\* ExecutionConfig, the fields executeCode reads and timeoutMs
ExecutionConfigs ==
    [userId : {Undefined, Some("u1")},
     sessionId : {Undefined, Some("s1")},
     organizationId : {Undefined},
     scopes : {Undefined, Some(<<"read">>)},
     timeoutMs : {Undefined, Some(1000)},
     metadata : {Undefined}]

\* executeCode: the ExecutionContext built from config at Date.now() = t
executionContext(config, t) ==
    [userId         |-> OrElse(config.userId, "anonymous"),
     sessionId      |-> OrElse(config.sessionId, <<"session-", t>>),
     organizationId |-> config.organizationId,
     scopes         |-> OrElse(config.scopes, <<"*">>),
     metadata       |-> config.metadata]

(***************************************************************************)
(* Trace reconstruction (CodeMode.parseToolCallsFromOutput).  A string is   *)
(* held as the sequence of its segments between "\n", which is what         *)
(* output.split("\n") yields: never empty, the empty string being one       *)
(* empty segment.  A segment is a marker line (the first of the three       *)
(* patterns that matches it, in the order the code tries them, with the     *)
(* tool name and the payload after the tag) or a text line.                 *)
(***************************************************************************)
MaxLines == 3

TraceTools == {"a", "b"}

MarkerKinds == {"TOOL_CALL", "TOOL_RESULT", "TOOL_ERROR"}

\* payloads after a tag: not JSON, JSON null, JSON objects
Payloads == {"not-json", "null", "{}", "{\"durationMs\":5,\"error\":\"boom\"}"}

\* text lines, as their characters
Texts == {<<>>, <<"x">>, <<" ", "x">>}

MarkerLine(kind, tool, payload) ==
    [kind |-> kind, tool |-> tool, payload |-> payload, text |-> <<>>]

TextLine(text) == [kind |-> "text", tool |-> "", payload |-> "", text |-> text]

Lines ==
    {MarkerLine(k, n, p) : k \in MarkerKinds, n \in TraceTools, p \in Payloads}
        \cup {TextLine(t) : t \in Texts}

\* the strings of at most MaxLines lines
Outputs == UNION {[1..n -> Lines] : n \in 1..MaxLines}

EmptyString == <<TextLine(<<>>)>>

\* JSON.parse(payload): throws, or the value with the two properties the
\* parser reads (reading a property of null throws a TypeError)
JSONparse(payload) ==
    CASE payload = "not-json" ->
            [threw |-> TRUE, isNull |-> FALSE,
             durationMs |-> Undefined, error |-> Undefined]
      [] payload = "null" ->
            [threw |-> FALSE, isNull |-> TRUE,
             durationMs |-> Undefined, error |-> Undefined]
      [] payload = "{}" ->
            [threw |-> FALSE, isNull |-> FALSE,
             durationMs |-> Undefined, error |-> Undefined]
      [] payload = "{\"durationMs\":5,\"success\":true}" ->
            [threw |-> FALSE, isNull |-> FALSE,
             durationMs |-> Some(5), error |-> Undefined]
      [] OTHER ->
            [threw |-> FALSE, isNull |-> FALSE,
             durationMs |-> Some(5), error |-> Some("boom")]

\* x || 0 for an optional number
OrZero(x) == IF IsDefined(x) /\ x[1] # 0 THEN x[1] ELSE 0

NoToolCallMap == [n \in TraceTools |-> 0]

\* the locals of parseToolCallsFromOutput before the loop; toolCallMap holds
\* a reference to a record of toolCalls, kept here as its index (0: no entry)
ParseStart == [toolCalls |-> <<>>, toolCallMap |-> NoToolCallMap, cleanLines |-> <<>>]

\* a loop body that records a call marker whatever its payload
parseLine_RecordsUnreadable(st, line) ==
    LET data == JSONparse(line.payload)
        at == st.toolCallMap[line.tool]
    IN  CASE line.kind = "TOOL_CALL" ->
                [st EXCEPT
                    !.toolCalls = Append(@, [tool |-> line.tool,
                                             input |-> line.payload,
                                             output |-> "null",
                                             durationMs |-> 0,
                                             success |-> FALSE,
                                             error |-> Undefined]),
                    !.toolCallMap[line.tool] = Len(st.toolCalls) + 1]
          [] line.kind = "TOOL_RESULT" ->
                IF data.threw \/ at = 0 \/ data.isNull
                THEN st
                ELSE [st EXCEPT !.toolCalls[at].durationMs = OrZero(data.durationMs),
                                !.toolCalls[at].success = TRUE]
          [] line.kind = "TOOL_ERROR" ->
                IF data.threw \/ at = 0 \/ data.isNull
                THEN st
                ELSE [st EXCEPT !.toolCalls[at].durationMs = OrZero(data.durationMs),
                                !.toolCalls[at].success = FALSE,
                                !.toolCalls[at].error = data.error]
          [] OTHER -> [st EXCEPT !.cleanLines = Append(@, line)]

\* one iteration of `for (const line of lines)`
parseLine(st, line) ==
    LET data == JSONparse(line.payload)
        at == st.toolCallMap[line.tool]
    IN  CASE line.kind = "TOOL_CALL" ->
                IF data.threw
                THEN st
                ELSE [st EXCEPT
                        !.toolCalls = Append(@, [tool |-> line.tool,
                                                 input |-> line.payload,
                                                 output |-> "null",
                                                 durationMs |-> 0,
                                                 success |-> FALSE,
                                                 error |-> Undefined]),
                        !.toolCallMap[line.tool] = Len(st.toolCalls) + 1]
          [] line.kind = "TOOL_RESULT" ->
                IF data.threw \/ at = 0 \/ data.isNull
                THEN st
                ELSE [st EXCEPT !.toolCalls[at].durationMs = OrZero(data.durationMs),
                                !.toolCalls[at].success = TRUE]
          [] line.kind = "TOOL_ERROR" ->
                IF data.threw \/ at = 0 \/ data.isNull
                THEN st
                ELSE [st EXCEPT !.toolCalls[at].durationMs = OrZero(data.durationMs),
                                !.toolCalls[at].success = FALSE,
                                !.toolCalls[at].error = data.error]
          [] OTHER -> [st EXCEPT !.cleanLines = Append(@, line)]

RECURSIVE parseLines(_, _)
parseLines(st, lines) ==
    IF lines = <<>> THEN st
    ELSE parseLines(parseLine(st, Head(lines)), Tail(lines))

\* cleanLines.join("\n"): no lines and one empty line give the same string
join(lines) == IF lines = <<>> THEN EmptyString ELSE lines

IsSpace(ch) == ch = " "

Blank(line) == \A i \in DOMAIN line.text : IsSpace(line.text[i])

RECURSIVE trimStartText(_)
trimStartText(text) ==
    IF text # <<>> /\ IsSpace(Head(text)) THEN trimStartText(Tail(text)) ELSE text

RECURSIVE trimEndText(_)
trimEndText(text) ==
    IF text # <<>> /\ IsSpace(text[Len(text)])
    THEN trimEndText(SubSeq(text, 1, Len(text) - 1))
    ELSE text

RECURSIVE dropBlankStart(_)
dropBlankStart(str) ==
    IF str # <<>> /\ Blank(Head(str)) THEN dropBlankStart(Tail(str)) ELSE str

RECURSIVE dropBlankEnd(_)
dropBlankEnd(str) ==
    IF str # <<>> /\ Blank(str[Len(str)])
    THEN dropBlankEnd(SubSeq(str, 1, Len(str) - 1))
    ELSE str

\* String.prototype.trim() on a string of text lines: white space and line
\* breaks go from both ends
trim(str) ==
    LET kept == dropBlankEnd(dropBlankStart(str))
    IN  IF kept = <<>> THEN EmptyString
        ELSE [i \in 1..Len(kept) |->
                TextLine(LET t1 == IF i = 1 THEN trimStartText(kept[i].text)
                                   ELSE kept[i].text
                         IN  IF i = Len(kept) THEN trimEndText(t1) ELSE t1)]

parseToolCallsFromOutput(output) ==
    LET st == parseLines(ParseStart, output)
    IN  [cleanOutput |-> trim(join(st.cleanLines)), toolCalls |-> st.toolCalls]

\* executeCode returning the clean output whatever it is
executeCodeResult_NoFallback(output) ==
    LET parsed == parseToolCallsFromOutput(output)
    IN  [output |-> parsed.cleanOutput,
         cleanOutput |-> parsed.cleanOutput,
         toolCalls |-> parsed.toolCalls]

\* the fields of executeCode's result that come from the parser:
\* `output: cleanOutput || result.output` and toolCalls
executeCodeResult(output) ==
    LET parsed == parseToolCallsFromOutput(output)
    IN  [output |-> IF parsed.cleanOutput = EmptyString THEN output
                    ELSE parsed.cleanOutput,
         cleanOutput |-> parsed.cleanOutput,
         toolCalls |-> parsed.toolCalls]

(***************************************************************************)
(* The generated client runtime (generateTRPCClientRuntime and              *)
(* generateFetchClientRuntime): one proxy method per tool name.             *)
(***************************************************************************)
Runtimes == {"trpc", "fetch"}

\* what a caller passes to a proxy: a value JSON.stringify accepts, or one
\* it throws on (a BigInt, a cyclic object)
ProxyInputs == {"serializable", "unserializable"}

\* a proxy call: where it waits, what it was called with, what the caller
\* got, how the request ended, and the markers and the request in the order
\* the call made them
IdleProxyCall ==
    [runtime |-> "trpc", pc |-> "idle", tool |-> "", input |-> "",
     settled |-> "none", request |-> "none", events |-> <<>>]

\* JSON.stringify(input): throws a TypeError, or the text
JSONstringify(input) ==
    IF input = "unserializable" THEN [threw |-> TRUE, text |-> ""]
    ELSE [threw |-> FALSE, text |-> "{}"]

\* console.log(tag, payload) adds one line to the sandbox output
consoleLog(console, kind, tool, payload) ==
    Append(console, MarkerLine(kind, tool, payload))

\* JSON.stringify({ durationMs, success: true })
ResultPayload == "{\"durationMs\":5,\"success\":true}"

\* JSON.stringify({ durationMs, success: false, error: error.message || ... })
ErrorPayload == "{\"durationMs\":5,\"success\":false,\"error\":\"boom\"}"

(***************************************************************************)
(* The tool registry (createToolRegistry): its Map of definitions, held in  *)
(* insertion order, and what the schemas of a definition do.                *)
(***************************************************************************)
MaxRegistrations == 3

\* values passed to and returned by tools: { a: "x" }, { a: "x", b: 1 },
\* {} and the string "text"
JsonValues == {"{a}", "{a,b}", "{}", "text"}

\* z.object({ a: z.string() }), z.string(), and the object schema with a
\* refinement whose function throws
Schemas == {"object", "string", "refineThrows"}

\* schema.parse(value): the parsed value, a ZodError, or the error the
\* refinement threw; an object schema drops the keys it does not know
zodParse(schema, value) ==
    CASE schema = "string" ->
            IF value = "text" THEN [kind |-> "ok", value |-> value]
            ELSE [kind |-> "ZodError", value |-> "expected string"]
      [] schema = "object" ->
            IF value \in {"{a}", "{a,b}"} THEN [kind |-> "ok", value |-> "{a}"]
            ELSE [kind |-> "ZodError", value |-> "a: expected string"]
      [] OTHER ->
            IF value \in {"{a}", "{a,b}"}
            THEN [kind |-> "Error", value |-> "refinement failed"]
            ELSE [kind |-> "ZodError", value |-> "a: expected string"]

\* the definitions callers register: two under each name
ToolDefinitions ==
    {[name |-> "alpha", description |-> "first alpha", inputSchema |-> "object",
      outputSchema |-> Undefined, requiredScopes |-> Undefined],
     [name |-> "alpha", description |-> "second alpha", inputSchema |-> "string",
      outputSchema |-> Some("object"), requiredScopes |-> Some(<<"admin">>)],
     [name |-> "beta", description |-> "first beta", inputSchema |-> "object",
      outputSchema |-> Some("object"), requiredScopes |-> Some(<<>>)],
     [name |-> "beta", description |-> "second beta", inputSchema |-> "refineThrows",
      outputSchema |-> Some("refineThrows"),
      requiredScopes |-> Some(<<"read", "admin">>)]}

\* the ExecutionContext handed to executeTool, which passes it on unread
RegistryContexts == {[userId |-> "u1", sessionId |-> "s1", scopes |-> <<"read">>]}

\* ToolRegistryOptions, the field the registry reads
RegistryOptions == [validateOutputs : {Undefined, Some(TRUE), Some(FALSE)}]

\* Map.prototype.has on the registry's tools
has(registryTools, name) ==
    \E i \in 1..Len(registryTools) : registryTools[i].name = name

\* Array.from(tools.keys())
getToolNames(registryTools) ==
    [i \in 1..Len(registryTools) |-> registryTools[i].name]

\* a register that adds an entry whatever the Map holds
register_Appends(registryTools, tool) ==
    [tools |-> Append(registryTools, tool), warned |-> has(registryTools, tool.name)]

\* register(tool): Map.prototype.set keeps the place of a key it already
\* holds and replaces its value
register(registryTools, tool) ==
    [tools  |-> IF has(registryTools, tool.name)
                THEN [i \in 1..Len(registryTools) |->
                        IF registryTools[i].name = tool.name THEN tool
                        ELSE registryTools[i]]
                ELSE Append(registryTools, tool),
     warned |-> has(registryTools, tool.name)]

\* A line of the generated text is its kind and the parts the code puts
\* into it; the text is the sequence of its lines.
Line(kind, parts) == [kind |-> kind, parts |-> parts]

\* str.charAt(0).toUpperCase() + str.slice(1)
capitalize(str) ==
    CASE str = "alpha" -> "Alpha"
      [] str = "beta"  -> "Beta"
      [] OTHER         -> str

\* a z.object(...) schema, refined or not, is an instance of ZodObject
IsZodObject(schema) == schema \in {"object", "refineThrows"}

\* zodToTypeString(schema, typeName): the interface name for an object
\* schema, the inline type for a z.string()
zodToTypeString(schema, typeName) ==
    IF IsZodObject(schema) THEN typeName ELSE "string"

\* zodToInterfaceString(schema, interfaceName), as the lines of the string
\* it returns; the object schemas have the shape { a: z.string() }
zodToInterfaceString(schema, interfaceName) ==
    IF ~IsZodObject(schema)
    THEN <<Line("type", <<interfaceName, zodToTypeString(schema, interfaceName)>>)>>
    ELSE <<Line("interface", <<interfaceName>>),
           Line("field", <<"a", zodToTypeString("string", interfaceName \o "A")>>),
           Line("close", <<"}">>)>>

\* the lines the first loop of generateTypeDefinitions pushes for one tool
methodLines(tool) ==
    LET inputType  == zodToTypeString(tool.inputSchema, capitalize(tool.name) \o "Input")
        outputType == IF IsDefined(tool.outputSchema)
                      THEN zodToTypeString(tool.outputSchema[1],
                                           capitalize(tool.name) \o "Output")
                      ELSE "unknown"
    IN  <<Line("comment", <<"/**">>), Line("comment", <<tool.description>>)>>
        \o (IF IsDefined(tool.requiredScopes) /\ Len(tool.requiredScopes[1]) > 0
            THEN <<Line("requires", tool.requiredScopes[1])>>
            ELSE <<>>)
        \o <<Line("comment", <<"*/">>),
             Line("method", <<tool.name, inputType, outputType>>),
             Line("blank", <<>>)>>

\* the lines the second loop of generateTypeDefinitions pushes for one tool
interfaceLines(tool) ==
    zodToInterfaceString(tool.inputSchema, capitalize(tool.name) \o "Input")
    \o (IF IsDefined(tool.outputSchema)
        THEN zodToInterfaceString(tool.outputSchema[1],
                                  capitalize(tool.name) \o "Output")
        ELSE <<>>)

RECURSIVE declarations(_)
\* the first loop of generateTypeDefinitions, over the Map in its order
declarations(registryTools) ==
    IF registryTools = <<>> THEN <<>>
    ELSE methodLines(Head(registryTools)) \o declarations(Tail(registryTools))

RECURSIVE interfaces(_)
\* the second loop of generateTypeDefinitions, over the Map in its order
interfaces(registryTools) ==
    IF registryTools = <<>> THEN <<>>
    ELSE interfaceLines(Head(registryTools)) \o interfaces(Tail(registryTools))

Reverse(seq) == [i \in 1..Len(seq) |-> seq[Len(seq) + 1 - i]]

TypeDefinitionsHeader ==
    <<Line("comment", <<"// ====">>),
      Line("comment", <<"// Custom Tools API - Available functions you can call in your code">>),
      Line("comment", <<"// ====">>),
      Line("blank", <<>>),
      Line("open", <<"declare const tools: {">>)>>

\* a generateTypeDefinitions that walks the Map from its last entry
generateTypeDefinitions_Reversed(registryTools) ==
    TypeDefinitionsHeader
    \o declarations(Reverse(registryTools))
    \o <<Line("close", <<"};">>), Line("blank", <<>>),
         Line("comment", <<"// Tool input/output types">>)>>
    \o interfaces(Reverse(registryTools))

\* createToolRegistry().generateTypeDefinitions()
generateTypeDefinitions(registryTools) ==
    TypeDefinitionsHeader
    \o declarations(registryTools)
    \o <<Line("close", <<"};">>), Line("blank", <<>>),
         Line("comment", <<"// Tool input/output types">>)>>
    \o interfaces(registryTools)

\* what tool.execute does when it is invoked: returns a value or throws
ExecutorBehaviours ==
    {[kind |-> "returns", value |-> v] : v \in JsonValues}
        \cup {[kind |-> "throws", value |-> "executor error"]}

Rejected(message, calls) ==
    [settled |-> "rejected", value |-> message, executorCalls |-> calls,
     errorLogs |-> 0]

Resolved(value, calls, errorLogs) ==
    [settled |-> "resolved", value |-> value, executorCalls |-> calls,
     errorLogs |-> errorLogs]

\* an executeTool that hands the input to the executor before it looks at
\* what the input schema says
registryExecuteTool_ExecutesFirst(registryTools, options, name, input, context, behaviour) ==
    LET tool == get(registryTools, name)
    IN  IF ~IsDefined(tool) THEN Rejected("Unknown tool", <<>>)
        ELSE
        LET validatedInput == zodParse(tool[1].inputSchema, input)
            calls == <<[input |-> input, context |-> context]>>
        IN  IF validatedInput.kind = "ZodError"
            THEN Rejected("Invalid input for tool", calls)
            ELSE IF validatedInput.kind = "Error"
            THEN Rejected(validatedInput.value, calls)
            ELSE IF behaviour.kind = "throws"
            THEN Rejected(behaviour.value, calls)
            ELSE Resolved(behaviour.value, calls, 0)

\* createToolRegistry(options).executeTool(name, input, context) in full:
\* what it settles with, the calls of tool.execute it made, and how often
\* it called logger.error
registryExecuteTool(registryTools, options, name, input, context, behaviour) ==
    LET tool == get(registryTools, name)
    IN  IF ~IsDefined(tool) THEN Rejected("Unknown tool", <<>>)
        ELSE
        LET validatedInput == zodParse(tool[1].inputSchema, input)
            calls == <<[input |-> validatedInput.value, context |-> context]>>
        IN  IF validatedInput.kind = "ZodError"
            THEN Rejected("Invalid input for tool", <<>>)
            ELSE IF validatedInput.kind = "Error"
            THEN Rejected(validatedInput.value, <<>>)
            ELSE IF behaviour.kind = "throws"
            THEN Rejected(behaviour.value, calls)
            ELSE IF OrElse(options.validateOutputs, TRUE)
                    /\ IsDefined(tool[1].outputSchema)
            THEN LET parsed == zodParse(tool[1].outputSchema[1], behaviour.value)
                 IN  CASE parsed.kind = "ok" -> Resolved(parsed.value, calls, 0)
                       [] parsed.kind = "ZodError" ->
                            Resolved(behaviour.value, calls, 1)
                       [] OTHER -> Resolved(behaviour.value, calls, 0)
            ELSE Resolved(behaviour.value, calls, 0)

(***************************************************************************)
(* Idle values: what a specification leaves a subsystem it does not run at. *)
(***************************************************************************)
AuthzIdle ==
    /\ az_ctx = [userId |-> "u1", sessionId |-> "s1", scopes |-> <<>>]
    /\ az_req = Undefined
    /\ az_auth = Undefined
    /\ az_router = Undefined

RateIdle ==
    /\ rateLimitStore = EmptyStore
    /\ rl_last = Undefined
    /\ rl_max = 0
    /\ rl_calls = [u \in UserIds |-> 0]
    /\ rl_denied = [u \in UserIds |-> Undefined]

TokenIdle ==
    /\ tok = Undefined
    /\ tok_issue = Undefined
    /\ tv_last = Undefined

BridgeIdle ==
    /\ tools = <<>>
    /\ bp_config = Undefined
    /\ bp_registry = Undefined
    /\ bd_last = Undefined
    /\ bd_k = [u \in UserIds |-> [n \in ToolNames |-> 0]]
    /\ bd_n = 0

RouterIdle ==
    /\ trpcRateLimitStore = TRPCEmptyStore
    /\ rt_router = Undefined
    /\ rq_last = Undefined

RegistryIdle ==
    /\ rg_options = [validateOutputs |-> Undefined]
    /\ rg_history = <<>>
    /\ rg_last = Undefined
    /\ rg_text = Undefined

TraceIdle ==
    /\ tr_output = <<>>
    /\ tr_result = Undefined

RunIdle == run_calls = <<>>

DispatchIdle ==
    /\ dp_call = [c \in CallerIds |-> "idle"]
    /\ dp_passed = 0
    /\ dp_allowedAt = <<>>

StubIdle ==
    /\ st_call = [c \in CallerIds |-> IdleProxyCall]
    /\ st_console = <<>>

(***************************************************************************)
(* BaseSandboxProvider.  initializationPromise is the promise the field    *)
(* holds: "null", or the state of the promise doInitialize(...).then(...)  *)
(* .catch(...).  A caller's call in flight is the method (op) and the      *)
(* promise it awaits (pc).                                                 *)
(***************************************************************************)
SandboxStates ==
    {"uninitialized", "creating", "starting", "running", "stopped", "error",
     "destroyed"}

IdleSandboxCall == [op |-> "none", pc |-> "idle", outcome |-> "none"]

SandboxEventNames == {"doInitialize", "doExecuteCode", "doCleanup"}

\* what has happened to the provider so far: doInitialize has succeeded,
\* cleanup has succeeded, the states doExecuteCode was invoked in, the
\* states before and after the last executeCode that threw
NoSandboxHistory ==
    [initialized |-> FALSE, cleaned |-> FALSE, executedIn |-> {},
     thrown |-> <<>>]

SandboxIdle ==
    /\ sp_state = "uninitialized"
    /\ sp_initializationPromise = "null"
    /\ sp_call = [c \in CallerIds |-> IdleSandboxCall]
    /\ sp_events = [e \in SandboxEventNames |-> 0]
    /\ sp_hist = NoSandboxHistory
    /\ sp_n = 0

\* the orchestrator on a BaseSandboxProvider: its calls in flight, whether
\* initialize has resolved and no cleanup has run since, and what the last
\* isReady call or the last submission to the provider observed
LifecycleIdle ==
    /\ lc_call = [c \in CallerIds |-> IdleSandboxCall]
    /\ lc_fresh = FALSE
    /\ lc_last = Undefined
    /\ lc_n = 0

\* an installDependencies call has completed successfully since initialize
\* or cleanup last completed
InstallIdle == cm_installed = FALSE

\* no executeCode invocation has built its execution context yet
SessionIdle == ss_calls = <<>>

CodeModeIdle ==
    /\ cm_initialized = FALSE
    /\ cm_dependenciesInstalled = FALSE
    /\ cm_protocolName = "trpc"
    /\ cm_call = [c \in CallerIds |-> IdleCall]
    /\ cm_events = NoEvents
    /\ cm_life = "constructed"
    /\ cm_n = 0
    /\ ex_config = Undefined
    /\ TraceIdle
    /\ StubIdle
    /\ RegistryIdle
    /\ RunIdle
    /\ DispatchIdle
    /\ SandboxIdle
    /\ LifecycleIdle
    /\ InstallIdle
    /\ SessionIdle

(***************************************************************************)
(* Specification SpecAuthz: the two scope checks on every context and      *)
(* every requiredScopes value.                                             *)
(***************************************************************************)
InitAuthz ==
    /\ ClockIdle
    /\ CodeModeIdle
    /\ BridgeIdle
    /\ RouterIdle
    /\ RateIdle
    /\ TokenIdle
    /\ az_ctx \in AuthzContexts
    /\ az_req \in {Undefined} \cup {Some(r) : r \in ScopeLists}
    /\ az_auth = Undefined
    /\ az_router = Undefined

\* executeToolWithChecks, authorization stage:
\*   const requiredScopes = tool.requiredScopes ?? [];
\*   this.checkAuthorization(context, requiredScopes)
BaseScopeCheck ==
    /\ az_auth = Undefined
    /\ az_auth' = Some(checkAuthorization(az_ctx, OrElse(az_req, <<>>)))
    /\ UNCHANGED <<now, ticks, az_ctx, az_req, az_router>>
    /\ UNCHANGED rateVars
    /\ UNCHANGED tokenVars
    /\ UNCHANGED bridgeVars
    /\ UNCHANGED <<routerVars, cmVars>>

\* the procedure chain's .use(requireScopes(...scopes)) for an authenticated context
RouterScopeCheck ==
    /\ az_router = Undefined
    /\ az_router' = Some(requireScopes(routerScopes([requiredScopes |-> az_req]),
                                       Some(az_ctx)))
    /\ UNCHANGED <<now, ticks, az_ctx, az_req, az_auth>>
    /\ UNCHANGED rateVars
    /\ UNCHANGED tokenVars
    /\ UNCHANGED bridgeVars
    /\ UNCHANGED <<routerVars, cmVars>>

NextAuthz == BaseScopeCheck \/ RouterScopeCheck

SpecAuthz == InitAuthz /\ [][NextAuthz]_vars

(***************************************************************************)
(* Specification SpecRate: checkRateLimit called by several users, with    *)
(* any limit, as the clock advances.                                       *)
(***************************************************************************)
InitRate ==
    /\ ClockIdle
    /\ CodeModeIdle
    /\ BridgeIdle
    /\ RouterIdle
    /\ AuthzIdle
    /\ TokenIdle
    /\ rateLimitStore = EmptyStore
    /\ rl_last = Undefined
    /\ rl_max \in Limits
    /\ rl_calls = [u \in UserIds |-> 0]
    /\ rl_denied = [u \in UserIds |-> Undefined]

\* one call of checkRateLimit(userId, maxPerMinute) at Date.now() = now
CheckRateLimit(userId, maxPerMinute) ==
    LET r      == checkRateLimit(rateLimitStore, userId, maxPerMinute, now)
        inWin  == InWindow(rateLimitStore, userId, now)
        before == IF inWin THEN rl_calls[userId] ELSE 0
    IN  /\ before < MaxCalls
        /\ rateLimitStore' = r.store
        /\ rl_calls' = [rl_calls EXCEPT ![userId] = before + 1]
        /\ rl_denied' = [rl_denied EXCEPT ![userId] =
                          IF r.result.allowed THEN Undefined
                          ELSE Some([at |-> now, resetIn |-> r.result.resetIn])]
        /\ rl_last' = Some([userId |-> userId,
                            maxPerMinute |-> maxPerMinute,
                            at |-> now,
                            prior |-> before,
                            afterDenial |-> rl_denied[userId],
                            result |-> r.result])
        /\ UNCHANGED rl_max

RateCall ==
    /\ \E u \in UserIds : CheckRateLimit(u, rl_max)
    /\ UNCHANGED clockVars
    /\ UNCHANGED <<authzVars, cmVars>>
    /\ UNCHANGED tokenVars
    /\ UNCHANGED bridgeVars
    /\ UNCHANGED routerVars

RateDeltas == {500, 60000}

RateTick ==
    /\ Tick(RateDeltas)
    /\ UNCHANGED <<authzVars, cmVars, rateVars, tokenVars, bridgeVars, routerVars>>

NextRate == RateCall \/ RateTick

SpecRate == InitRate /\ [][NextRate]_vars

(***************************************************************************)
(* Specification SpecDispatch: two callers dispatch tools for one user at  *)
(* the same time, against one limit, as the clock advances.  A dispatch    *)
(* reaches the rate-limit check after the awaits before it (the endpoint's *)
(* token verification and middlewares), runs the check without giving up   *)
(* control (checkRateLimit has no await between its read of the Map and    *)
(* its write), and then awaits the tool.                                   *)
(***************************************************************************)
dispatchOthers ==
    <<authzVars, tokenVars, bridgeVars, routerVars,
      cm_initialized, cm_dependenciesInstalled, cm_protocolName, cm_call,
      cm_events, cm_life, cm_n, ex_config, traceVars, stubVars, registryVars,
      runVars,
      sandboxVars,
      lifecycleVars,
      installVars,
      sessionVars>>

DispatchUser == "u1"

InitDispatch ==
    /\ ClockIdle
    /\ AuthzIdle
    /\ TokenIdle
    /\ BridgeIdle
    /\ RouterIdle
    /\ CodeModeIdle
    /\ rateLimitStore = EmptyStore
    /\ rl_last = Undefined
    /\ rl_max \in 1..MaxLimit
    /\ rl_calls = [u \in UserIds |-> 0]
    /\ rl_denied = [u \in UserIds |-> Undefined]

\* a dispatch arrives and awaits what comes before the rate-limit check
DispatchArrives(c) ==
    /\ dp_call[c] = "idle"
    /\ dp_call' = [dp_call EXCEPT ![c] = "rateLimit"]
    /\ UNCHANGED <<dp_passed, dp_allowedAt, rateVars, clockVars, dispatchOthers>>

\* the dispatch runs checkRateLimit(userId, limit) and, when allowed, goes
\* on to await registry.executeTool
DispatchChecksRateLimit(c) ==
    /\ dp_call[c] = "rateLimit"
    /\ CheckRateLimit(DispatchUser, rl_max)
    /\ LET allowed == rl_last'[1].result.allowed
           opened  == rl_last'[1].prior = 0
       IN  /\ dp_call' = [dp_call EXCEPT ![c] = IF allowed THEN "executeTool"
                                                ELSE "idle"]
           /\ dp_passed' = IF opened THEN 1
                           ELSE IF allowed THEN dp_passed + 1 ELSE dp_passed
           /\ dp_allowedAt' = IF allowed THEN Append(dp_allowedAt, now)
                              ELSE dp_allowedAt
    /\ UNCHANGED <<clockVars, dispatchOthers>>

\* registry.executeTool settles and the dispatch returns
DispatchSettles(c) ==
    /\ dp_call[c] = "executeTool"
    /\ dp_call' = [dp_call EXCEPT ![c] = "idle"]
    /\ UNCHANGED <<dp_passed, dp_allowedAt, rateVars, clockVars, dispatchOthers>>

DispatchTick ==
    /\ Tick(RateDeltas)
    /\ UNCHANGED <<dispatchVars, rateVars, dispatchOthers>>

NextDispatch ==
    \/ \E c \in CallerIds :
          \/ DispatchArrives(c)
          \/ DispatchChecksRateLimit(c)
          \/ DispatchSettles(c)
    \/ DispatchTick

SpecDispatch == InitDispatch /\ [][NextDispatch]_vars

(***************************************************************************)
(* Specification SpecToken: one token is issued by either issuer under any *)
(* config, possibly altered in flight, and verified by either verifier     *)
(* under any config as the clock advances.                                 *)
(***************************************************************************)
TokenDeltas == {500, 1000, 300000}

InitToken ==
    /\ ClockIdle
    /\ CodeModeIdle
    /\ BridgeIdle
    /\ RouterIdle
    /\ AuthzIdle
    /\ RateIdle
    /\ TokenIdle

\* createExecutionToken(config, context) of utils/token.ts
IssueToken ==
    /\ tok = Undefined
    /\ \E config \in TokenConfigs, context \in TokenContexts :
          /\ tok' = Some(createExecutionToken(config, context, now))
          /\ tok_issue' = Some([by |-> "utils", config |-> config,
                                context |-> context, at |-> now])
    /\ tv_last' = Undefined
    /\ rq_last' = Undefined
    /\ UNCHANGED <<clockVars, authzVars, cmVars, rateVars, bridgeVars,
                   trpcRateLimitStore, rt_router>>

\* TRPCToolBridgeProtocol.createExecutionToken(context) of an initialized protocol
TRPCIssueToken ==
    /\ tok = Undefined
    /\ \E config \in TokenConfigs, context \in TokenContexts :
          /\ tok' = Some(trpcCreateExecutionToken(config, context, now))
          /\ tok_issue' = Some([by |-> "trpc", config |-> config,
                                context |-> context, at |-> now])
    /\ tv_last' = Undefined
    /\ rq_last' = Undefined
    /\ UNCHANGED <<clockVars, authzVars, cmVars, rateVars, bridgeVars,
                   trpcRateLimitStore, rt_router>>

\* the sandboxed caller, who holds the token but not the key, alters a claim
\* of the payload (the signature is then no longer that of the payload)
TamperToken ==
    /\ IsDefined(tok) /\ IsDefined(tok_issue)
    /\ \/ tok' = Some([tok[1] EXCEPT !.payload.exp = @ + 1000, !.intact = FALSE])
       \/ \E a \in {"tool-bridge", "tool-bridge-trpc", "aud-a"} :
            /\ a # tok[1].payload.aud
            /\ tok' = Some([tok[1] EXCEPT !.payload.aud = a, !.intact = FALSE])
    /\ tok_issue' = Undefined
    /\ tv_last' = Undefined
    /\ rq_last' = Undefined
    /\ UNCHANGED <<clockVars, authzVars, cmVars, rateVars, bridgeVars,
                   trpcRateLimitStore, rt_router>>

\* the caller presents a string that is no JWT
GarbageToken ==
    /\ tok = Undefined
    /\ tok' = Some([wellFormed |-> FALSE, payload |-> Undefined,
                    sigKey |-> "none", intact |-> FALSE])
    /\ tok_issue' = Undefined
    /\ tv_last' = Undefined
    /\ rq_last' = Undefined
    /\ UNCHANGED <<clockVars, authzVars, cmVars, rateVars, bridgeVars,
                   trpcRateLimitStore, rt_router>>

\* verifyExecutionToken(config, token) of utils/token.ts
VerifyToken ==
    /\ IsDefined(tok)
    /\ \E config \in TokenConfigs :
          tv_last' = Some([by |-> "utils", config |-> Some(config),
                           out |-> verifyExecutionToken(config, tok[1], now)])
    /\ rq_last' = Undefined
    /\ UNCHANGED <<tok, tok_issue, clockVars, authzVars, cmVars, rateVars, bridgeVars,
                   trpcRateLimitStore, rt_router>>

\* TRPCToolBridgeProtocol.verifyExecutionToken(token)
TRPCVerifyToken ==
    /\ IsDefined(tok)
    /\ \E config \in {Undefined} \cup {Some(c) : c \in TokenConfigs} :
          tv_last' = Some([by |-> "trpc", config |-> config,
                           out |-> trpcVerifyExecutionToken(config, tok[1], now)])
    /\ rq_last' = Undefined
    /\ UNCHANGED <<tok, tok_issue, clockVars, authzVars, cmVars, rateVars, bridgeVars,
                   trpcRateLimitStore, rt_router>>

TokenTick ==
    /\ Tick(TokenDeltas)
    /\ tv_last' = Undefined
    /\ UNCHANGED <<tok, tok_issue, authzVars, cmVars, rateVars, bridgeVars, routerVars>>

NextToken ==
    \/ IssueToken
    \/ TRPCIssueToken
    \/ TamperToken
    \/ GarbageToken
    \/ VerifyToken
    \/ TRPCVerifyToken
    \/ TokenTick

SpecToken == InitToken /\ [][NextToken]_vars

(***************************************************************************)
(* Specification SpecRoundTrip: utils/token.ts issues a token for any      *)
(* context, with or without its optional fields and with metadata of any  *)
(* values, under any config, and verifies it as the clock advances.        *)
(***************************************************************************)
RoundTripExpirations == {Undefined, Some(0), Some(1)}

RoundTripConfigs ==
    [secretKey : {"k1"}, expirationSeconds : RoundTripExpirations, audience : Audiences]

Metadatas ==
    {Undefined,
     Some({StringEntry("custom", "data")}),
     Some({DateEntry("when", "2024-01-01T00:00:00.000Z")}),
     Some({StringEntry("custom", "data"), UndefinedEntry("gone")})}

RoundTripContexts ==
    [userId : {"u1"}, sessionId : {"s1"},
     organizationId : {Undefined, Some("org-1")},
     scopes : {<<"read">>},
     metadata : Metadatas]

RoundTripDeltas == {500}

\* createExecutionToken(config, context) of utils/token.ts
RoundTripIssue ==
    /\ tok = Undefined
    /\ \E config \in RoundTripConfigs, context \in RoundTripContexts :
          /\ tok' = Some(createExecutionToken(config, context, now))
          /\ tok_issue' = Some([by |-> "utils", config |-> config,
                                context |-> context, at |-> now])
    /\ tv_last' = Undefined
    /\ UNCHANGED <<clockVars, authzVars, cmVars, rateVars, bridgeVars, routerVars>>

\* verifyExecutionToken(config, token) of utils/token.ts
RoundTripVerify ==
    /\ IsDefined(tok)
    /\ \E config \in RoundTripConfigs :
          tv_last' = Some([by |-> "utils", config |-> Some(config),
                           out |-> verifyExecutionToken(config, tok[1], now)])
    /\ UNCHANGED <<tok, tok_issue, clockVars, authzVars, cmVars, rateVars, bridgeVars,
                   routerVars>>

RoundTripTick ==
    /\ Tick(RoundTripDeltas)
    /\ tv_last' = Undefined
    /\ UNCHANGED <<tok, tok_issue, authzVars, cmVars, rateVars, bridgeVars, routerVars>>

NextRoundTrip ==
    \/ RoundTripIssue
    \/ RoundTripVerify
    \/ RoundTripTick

SpecRoundTrip == InitToken /\ [][NextRoundTrip]_vars

(***************************************************************************)
(* Specification Spec: a BaseToolBridgeProtocol is initialized over a      *)
(* registry of two tools and dispatches calls of two users as the clock    *)
(* advances.                                                               *)
(***************************************************************************)
\* the registry's tools: alpha is open to all and takes the bridge's
\* default rate limit, beta needs the scope admin and has a limit of its own
Registries ==
    {<<[name |-> "alpha", requiredScopes |-> Undefined, rateLimit |-> Undefined],
       [name |-> "beta", requiredScopes |-> Some(<<"admin">>),
        rateLimit |-> Some(MaxLimit)]>>}

\* ToolBridgeConfig, the fields dispatch reads: both are optional
BridgeConfigs ==
    {[enableRateLimiting |-> Undefined, defaultRateLimit |-> Undefined],
     [enableRateLimiting |-> Some(FALSE), defaultRateLimit |-> Some(1)],
     [enableRateLimiting |-> Some(TRUE), defaultRateLimit |-> Undefined],
     [enableRateLimiting |-> Some(TRUE), defaultRateLimit |-> Some(1)]}

BridgeContexts ==
    {[userId |-> "u1", sessionId |-> "s1", scopes |-> <<"read">>],
     [userId |-> "u2", sessionId |-> "s2", scopes |-> <<"admin">>]}

Init ==
    /\ ClockIdle
    /\ CodeModeIdle
    /\ RouterIdle
    /\ AuthzIdle
    /\ RateIdle
    /\ TokenIdle
    /\ tools \in Registries
    /\ bp_config = Undefined
    /\ bp_registry = Undefined
    /\ bd_last = Undefined
    /\ bd_k = [u \in UserIds |-> [n \in ToolNames |-> 0]]
    /\ bd_n = 0

\* BaseToolBridgeProtocol.initialize(config, registry)
Initialize ==
    /\ \E config \in BridgeConfigs : bp_config' = Some(config)
    /\ bp_registry' = Some("registry")
    /\ bd_last' = Undefined
    /\ UNCHANGED <<tools, bd_k, bd_n, rateLimitStore, rl_last, rl_max,
                   rl_calls, rl_denied, clockVars, authzVars, cmVars, tokenVars,
                   routerVars>>

\* one call of executeToolWithChecks(toolName, input, context)
ExecuteToolWithChecks(toolName, input, context, behaviour) ==
    LET d       == executeToolWithChecks(bp_registry, tools, bp_config,
                                         rateLimitStore, toolName, input,
                                         context, behaviour, now)
        user    == context.userId
        tool    == get(tools, toolName)
        inWin   == InWindow(rateLimitStore, user, now)
        before  == IF inWin THEN bd_k[user] ELSE [n \in ToolNames |-> 0]
        reached == /\ IsDefined(bp_registry)
                   /\ IsDefined(tool)
                   /\ checkAuthorization(context, OrElse(tool[1].requiredScopes, <<>>))
                   /\ rateLimitingEnabled(bp_config)
    IN  /\ bd_n < MaxDispatches
        /\ bd_n' = bd_n + 1
        /\ rateLimitStore' = d.store
        /\ bd_k' = IF reached
                   THEN [bd_k EXCEPT ![user] = [before EXCEPT ![toolName] = @ + 1]]
                   ELSE bd_k
        /\ bd_last' = Some([toolName |-> toolName,
                            input |-> input,
                            context |-> context,
                            initialized |-> IsDefined(bp_registry),
                            tool |-> IF IsDefined(bp_registry) THEN tool ELSE Undefined,
                            enabled |-> rateLimitingEnabled(bp_config),
                            exhausted |->
                                /\ inWin
                                /\ IsDefined(tool)
                                /\ IsDefined(bp_config)
                                /\ rateLimitStore[user][1].count >=
                                      toolLimit(tool[1], bp_config[1]),
                            k |-> IF reached THEN before[toolName] + 1 ELSE 0,
                            settled |-> d.settled,
                            thrown |-> d.thrown,
                            result |-> d.result,
                            executorCalls |-> d.executorCalls])
        /\ UNCHANGED <<tools, bp_config, bp_registry>>

Dispatch ==
    /\ \E toolName \in ToolNames \cup {"unknownTool"}, input \in Inputs,
          context \in BridgeContexts, behaviour \in Behaviours :
            ExecuteToolWithChecks(toolName, input, context, behaviour)
    /\ UNCHANGED <<rl_last, rl_max, rl_calls, rl_denied,
                   clockVars, authzVars, cmVars, tokenVars, routerVars>>

\* the clock advances by a whole window between dispatches
BridgeDeltas == {60000}

BridgeTick ==
    /\ Tick(BridgeDeltas)
    /\ bd_last' = Undefined
    /\ UNCHANGED <<authzVars, cmVars, rateVars, tokenVars, routerVars,
                   tools, bp_config, bp_registry, bd_k, bd_n>>

Next == Initialize \/ Dispatch \/ BridgeTick

Spec == Init /\ [][Next]_vars

(***************************************************************************)
(* Specification SpecRouter: a TRPCToolBridgeProtocol is initialized and   *)
(* its endpoint answers requests that carry no Authorization header, or    *)
(* the token in flight under the Bearer or another scheme, while tokens    *)
(* are issued, altered and verified and the clock advances.                *)
(***************************************************************************)
\* the ToolBridgeConfig values the protocol is initialized with
RouterConfigs ==
    [tokenConfig : {[secretKey |-> "k1", expirationSeconds |-> Some(1),
                     audience |-> Undefined]},
     enableRateLimiting : {Undefined, Some(FALSE)},
     defaultRateLimit : {Some(1)}]

Schemes == {"Bearer", "Basic"}

\* behind the endpoint the executor returns or throws an Error (how tRPC
\* words a thrown value that is no Error is the library's matter)
RouterBehaviours == {"returns", "throws"}

\* the Authorization headers a caller can send
AuthHeaders ==
    {Undefined} \cup
    (IF IsDefined(tok)
     THEN {Some([scheme |-> sch, token |-> tok[1]]) : sch \in Schemes}
     ELSE {})

InitRouter ==
    /\ ClockIdle
    /\ CodeModeIdle
    /\ AuthzIdle
    /\ RateIdle
    /\ TokenIdle
    /\ RouterIdle
    /\ tools \in Registries
    /\ bp_config = Undefined
    /\ bp_registry = Undefined
    /\ bd_last = Undefined
    /\ bd_k = [u \in UserIds |-> [n \in ToolNames |-> 0]]
    /\ bd_n = 0

\* TRPCToolBridgeProtocol.initialize(config, registry): the base
\* class's assignments, then doInitialize
TRPCInitialize ==
    /\ \E config \in RouterConfigs :
          /\ bp_config' = Some(config)
          /\ rt_router' = Some(createTRPCRouter(tools, config.enableRateLimiting,
                                                config.defaultRateLimit))
    /\ bp_registry' = Some("registry")
    /\ rq_last' = Undefined
    /\ tv_last' = Undefined
    /\ UNCHANGED <<tools, bd_last, bd_k, bd_n, trpcRateLimitStore, tok, tok_issue,
                   clockVars, authzVars, cmVars, rateVars>>

\* the request handler answers one request for the procedure toolName
HandleRequest ==
    /\ IsDefined(rt_router)
    /\ \E authHeader \in AuthHeaders, toolName \in ToolNames, input \in Inputs,
          behaviour \in RouterBehaviours :
          LET r == handleRequest(rt_router[1], Some(bp_config[1].tokenConfig),
                                 tools, trpcRateLimitStore, authHeader,
                                 toolName, input, behaviour, now)
          IN  /\ trpcRateLimitStore' = r.store
              /\ rq_last' = Some([scheme |-> IF IsDefined(authHeader)
                                             THEN authHeader[1].scheme ELSE "none",
                                  toolName |-> toolName,
                                  input |-> input,
                                  response |-> r.response,
                                  stages |-> r.stages,
                                  storeChanged |-> r.store # trpcRateLimitStore,
                                  executorCalls |-> r.executorCalls])
    /\ tv_last' = Undefined
    /\ UNCHANGED <<rt_router, tok, tok_issue, bridgeVars, clockVars, authzVars, cmVars,
                   rateVars>>

RouterDeltas == {60000}

RouterTick ==
    /\ Tick(RouterDeltas)
    /\ tv_last' = Undefined
    /\ rq_last' = Undefined
    /\ UNCHANGED <<tok, tok_issue, authzVars, cmVars, rateVars, bridgeVars,
                   trpcRateLimitStore, rt_router>>

NextRouter ==
    \/ TRPCInitialize
    \/ TRPCIssueToken
    \/ TamperToken
    \/ GarbageToken
    \/ VerifyToken
    \/ TRPCVerifyToken
    \/ HandleRequest
    \/ RouterTick

SpecRouter == InitRouter /\ [][NextRouter]_vars

(***************************************************************************)
(* Specification SpecPaths: a BaseToolBridgeProtocol and the router of a   *)
(* TRPCToolBridgeProtocol are initialized with one ToolBridgeConfig over  *)
(* one registry, and every call is dispatched on both paths, each path    *)
(* with the rate-limit store of its own.                                   *)
(***************************************************************************)
InitPaths ==
    /\ ClockIdle
    /\ CodeModeIdle
    /\ AuthzIdle
    /\ RateIdle
    /\ TokenIdle
    /\ RouterIdle
    /\ tools \in Registries
    /\ bp_config = Undefined
    /\ bp_registry = Undefined
    /\ bd_last = Undefined
    /\ bd_k = [u \in UserIds |-> [n \in ToolNames |-> 0]]
    /\ bd_n = 0

\* initialize(config, registry) of both protocols: the base class's
\* assignments, and the router doInitialize builds from the same config
PathsInitialize ==
    /\ bp_config = Undefined
    /\ \E config \in BridgeConfigs :
          /\ bp_config' = Some(config)
          /\ rt_router' = Some(createTRPCRouter(tools, config.enableRateLimiting,
                                                config.defaultRateLimit))
    /\ bp_registry' = Some("registry")
    /\ UNCHANGED <<tools, bd_last, bd_k, bd_n, trpcRateLimitStore, rq_last,
                   clockVars, authzVars, cmVars, rateVars, tokenVars>>

\* one call, by an authenticated context, dispatched on both paths
PathsDispatch ==
    /\ IsDefined(bp_config)
    /\ bd_n < MaxDispatches
    /\ \E toolName \in ToolNames, input \in Inputs, context \in BridgeContexts,
          behaviour \in RouterBehaviours :
          LET base == executeToolWithChecks(bp_registry, tools, bp_config,
                                            rateLimitStore, toolName, input,
                                            context, behaviour, now)
              trpc == callProcedure(rt_router[1], tools, trpcRateLimitStore,
                                    Some(context), toolName, input, behaviour, now)
          IN  /\ rateLimitStore' = base.store
              /\ trpcRateLimitStore' = trpc.store
              /\ bd_last' = Some([toolName |-> toolName,
                                  context  |-> context,
                                  base     |-> base.result,
                                  trpc     |-> trpc.response])
    /\ bd_n' = bd_n + 1
    /\ UNCHANGED <<tools, bp_config, bp_registry, bd_k, rt_router, rq_last,
                   rl_last, rl_max, rl_calls, rl_denied,
                   clockVars, authzVars, cmVars, tokenVars>>

PathsTick ==
    /\ Tick(BridgeDeltas)
    /\ bd_last' = Undefined
    /\ UNCHANGED <<authzVars, cmVars, rateVars, tokenVars, routerVars,
                   tools, bp_config, bp_registry, bd_k, bd_n>>

NextPaths == PathsInitialize \/ PathsDispatch \/ PathsTick

SpecPaths == InitPaths /\ [][NextPaths]_vars

(***************************************************************************)
(* Specification SpecServe: tools are registered and re-registered on the  *)
(* orchestrator before and after initialize(); executeCode generates the   *)
(* client stub from the registry's tool names, and the calls of the stub's *)
(* proxies arrive at the router that doInitialize built.                   *)
(***************************************************************************)
ServeToolDefinitions ==
    [name : ToolNames, requiredScopes : {Undefined, Some(<<"admin">>)},
     rateLimit : {Undefined, Some(1)}]

InitServe ==
    /\ ClockIdle
    /\ CodeModeIdle
    /\ AuthzIdle
    /\ RateIdle
    /\ TokenIdle
    /\ RouterIdle
    /\ BridgeIdle

\* CodeMode.registerTool(tool)
ServeRegisterTool ==
    /\ \E tool \in ServeToolDefinitions : tools' = register(tools, tool).tools
    /\ bd_last' = Undefined
    /\ UNCHANGED <<bp_config, bp_registry, bd_k, bd_n, routerVars, clockVars,
                   authzVars, cmVars, rateVars, tokenVars>>

\* CodeMode.initialize(): the bridge protocol's doInitialize builds the
\* router from the registry as it is now
ServeInitialize ==
    /\ bp_config = Undefined
    /\ \E config \in BridgeConfigs :
          /\ bp_config' = Some(config)
          /\ rt_router' = Some(createTRPCRouter(tools, config.enableRateLimiting,
                                                config.defaultRateLimit))
    /\ bp_registry' = Some("registry")
    /\ bd_last' = Undefined
    /\ UNCHANGED <<tools, bd_k, bd_n, trpcRateLimitStore, rq_last, clockVars,
                   authzVars, cmVars, rateVars, tokenVars>>

\* CodeMode.executeCode: the stub is generated for toolRegistry.getToolNames()
ServeExecuteCode ==
    /\ IsDefined(bp_config)
    /\ bd_n < MaxDispatches
    /\ bd_n' = bd_n + 1
    /\ bd_last' = Some([op |-> "executeCode", toolNames |-> getToolNames(tools)])
    /\ UNCHANGED <<tools, bp_config, bp_registry, bd_k, routerVars, clockVars,
                   authzVars, cmVars, rateVars, tokenVars>>

\* the procedure the router serves a name with, if any
served(router, toolName) == get(router.procedures, toolName)

\* a call of a stub proxy arrives at the request handler: a name the router
\* has no procedure for is answered NOT_FOUND, the others run the
\* procedure's chain and registry.executeTool
ServeDispatch ==
    /\ IsDefined(bp_config)
    /\ bd_n < MaxDispatches
    /\ bd_n' = bd_n + 1
    /\ \E i \in 1..Len(tools), context \in BridgeContexts :
          LET toolName == getToolNames(tools)[i]
              procedure == served(rt_router[1], toolName)
              out == IF IsDefined(procedure)
                     THEN callProcedure(rt_router[1], tools, trpcRateLimitStore,
                                        Some(context), toolName, "valid",
                                        "returns", now)
                     ELSE [response |-> TRPCError("NOT_FOUND",
                                                  "No procedure found on path"),
                           store |-> trpcRateLimitStore]
          IN  /\ trpcRateLimitStore' = out.store
              /\ bd_last' = Some([op |-> "dispatch", toolName |-> toolName,
                                  context |-> context,
                                  procedure |-> procedure,
                                  definition |-> tools[i],
                                  response |-> out.response])
    /\ UNCHANGED <<tools, bp_config, bp_registry, bd_k, rt_router, rq_last,
                   clockVars, authzVars, cmVars, rateVars, tokenVars>>

NextServe ==
    ServeRegisterTool \/ ServeInitialize \/ ServeExecuteCode \/ ServeDispatch

SpecServe == InitServe /\ [][NextServe]_vars

\* C39: the tool names in the stub of an execution are names the request
\* handler serves, and a call the handler dispatches is checked against the
\* scopes and the rate limit of the definition that executes, also for
\* tools registered or re-registered after initialize().
StubServed ==
    IsDefined(bd_last) /\ bd_last[1].op = "executeCode" =>
        \A i \in 1..Len(bd_last[1].toolNames) :
            IsDefined(served(rt_router[1], bd_last[1].toolNames[i]))

EnforcesCurrentDefinition ==
    IsDefined(bd_last) /\ bd_last[1].op = "dispatch" =>
        /\ IsDefined(bd_last[1].procedure)
        /\ bd_last[1].procedure[1].scopes = routerScopes(bd_last[1].definition)
        /\ bd_last[1].procedure[1].limit =
               OrElse(bd_last[1].definition.rateLimit,
                      OrElse(bp_config[1].defaultRateLimit, 60))

C39_StubToolsServedAsDefined == StubServed /\ EnforcesCurrentDefinition

\* the same while the registry is as it was when doInitialize built the router
RegistryAsInitialized ==
    IsDefined(rt_router) =>
        rt_router[1] = createTRPCRouter(tools, bp_config[1].enableRateLimiting,
                                        bp_config[1].defaultRateLimit)

ServedAsDefinedWhileUnchanged ==
    RegistryAsInitialized => C39_StubToolsServedAsDefined

\* a tool registered after initialize() is in the stub and not served
StubNotServed ==
    /\ IsDefined(bd_last) /\ bd_last[1].op = "executeCode"
    /\ \E i \in 1..Len(bd_last[1].toolNames) :
           ~IsDefined(served(rt_router[1], bd_last[1].toolNames[i]))

\* a tool re-registered after initialize() executes under the scopes of the
\* definition it replaced
ExecutedUnderOldScopes ==
    /\ IsDefined(bd_last) /\ bd_last[1].op = "dispatch"
    /\ IsDefined(bd_last[1].procedure)
    /\ bd_last[1].response.code = "OK"
    /\ bd_last[1].definition.requiredScopes = Some(<<"admin">>)
    /\ ~Includes(bd_last[1].context.scopes, "admin")

(***************************************************************************)
(* Specification SpecSandbox: two callers call initialize, executeCode and *)
(* cleanup on one BaseSandboxProvider without waiting for each other; the  *)
(* subclass's doInitialize, doExecuteCode and doCleanup resolve or reject. *)
(***************************************************************************)
sandboxOthers ==
    <<clockVars, authzVars, rateVars, tokenVars, bridgeVars, routerVars,
      cm_initialized, cm_dependenciesInstalled, cm_protocolName, cm_call,
      cm_events, cm_life, cm_n, ex_config, traceVars, stubVars, registryVars,
      runVars, dispatchVars,
      lifecycleVars,
      installVars,
      sessionVars>>

InitSandbox ==
    /\ ClockIdle
    /\ CodeModeIdle
    /\ BridgeIdle
    /\ RouterIdle
    /\ RateIdle
    /\ TokenIdle
    /\ AuthzIdle

\* initialize up to its return: the promise the call returns, the state it
\* leaves, and whether it invoked doInitialize
initialize_ClearedByCleanup(state, initializationPromise) ==
    IF initializationPromise # "null" /\ state # "destroyed"
    THEN [state |-> state, initializationPromise |-> initializationPromise,
          doInitialize |-> FALSE]
    ELSE [state |-> "creating", initializationPromise |-> "pending",
          doInitialize |-> TRUE]

initialize(state, initializationPromise) ==
    IF initializationPromise # "null"
    THEN [state |-> state, initializationPromise |-> initializationPromise,
          doInitialize |-> FALSE]
    ELSE [state |-> "creating", initializationPromise |-> "pending",
          doInitialize |-> TRUE]

\* executeCode up to its first await: it throws unless the state is running
executeCodeEntry(state) ==
    IF state # "running" THEN "notReady" ELSE "doExecuteCode"

SandboxStart(c, call) ==
    /\ sp_call[c].pc \in {"idle", "done"}
    /\ sp_n < MaxSandboxOps
    /\ sp_n' = sp_n + 1
    /\ sp_call' = [sp_call EXCEPT ![c] = call]

SandboxSettle(c, outcome) ==
    sp_call' = [sp_call EXCEPT ![c] = [@ EXCEPT !.pc = "done",
                                                !.outcome = outcome]]

InitializeCalled(c) ==
    LET r == initialize(sp_state, sp_initializationPromise)
    IN /\ SandboxStart(c, [op |-> "initialize", pc |-> "initializationPromise",
                           outcome |-> "none"])
       /\ sp_state' = r.state
       /\ sp_initializationPromise' = r.initializationPromise
       /\ sp_events' = IF r.doInitialize
                       THEN [sp_events EXCEPT !.doInitialize = @ + 1]
                       ELSE sp_events
       /\ UNCHANGED sp_hist

\* doInitialize settles: the then or the catch callback runs
DoInitializeSettled(ok) ==
    /\ sp_initializationPromise = "pending"
    /\ sp_initializationPromise' = IF ok THEN "fulfilled" ELSE "rejected"
    /\ sp_state' = IF ok THEN "running" ELSE "error"
    /\ sp_hist' = IF ok THEN [sp_hist EXCEPT !.initialized = TRUE] ELSE sp_hist
    /\ UNCHANGED <<sp_call, sp_events, sp_n>>

\* a caller's await of the returned promise continues
InitializeReturned(c) ==
    /\ sp_call[c].pc = "initializationPromise"
    /\ sp_initializationPromise \in {"fulfilled", "rejected"}
    /\ SandboxSettle(c, sp_initializationPromise)
    /\ UNCHANGED <<sp_state, sp_initializationPromise, sp_events, sp_hist, sp_n>>

ExecuteCodeCalled(c) ==
    LET entry == executeCodeEntry(sp_state)
    IN /\ UNCHANGED <<sp_state, sp_initializationPromise>>
       /\ SandboxStart(c, [op |-> "executeCode",
                           pc |-> IF entry = "notReady" THEN "done" ELSE entry,
                           outcome |-> IF entry = "notReady" THEN entry
                                       ELSE "none"])
       /\ sp_events' = IF entry = "doExecuteCode"
                       THEN [sp_events EXCEPT !.doExecuteCode = @ + 1]
                       ELSE sp_events
       /\ sp_hist' = IF entry = "doExecuteCode"
                     THEN [sp_hist EXCEPT !.executedIn = @ \cup {sp_state}]
                     ELSE [sp_hist EXCEPT
                               !.thrown = <<[before |-> sp_state,
                                             after |-> sp_state']>>]

\* doExecuteCode settles: its result is returned, its error is caught and a
\* failure result is returned
DoExecuteCodeSettled(c, ok) ==
    /\ sp_call[c].pc = "doExecuteCode"
    /\ SandboxSettle(c, IF ok THEN "result" ELSE "failureResult")
    /\ UNCHANGED <<sp_state, sp_initializationPromise, sp_events, sp_hist, sp_n>>

CleanupCalled(c) ==
    /\ SandboxStart(c, [op |-> "cleanup", pc |-> "doCleanup", outcome |-> "none"])
    /\ sp_events' = [sp_events EXCEPT !.doCleanup = @ + 1]
    /\ UNCHANGED <<sp_state, sp_initializationPromise, sp_hist>>

\* doCleanup settles: the state becomes destroyed, or the error is rethrown
DoCleanupSettled(c, ok) ==
    /\ sp_call[c].pc = "doCleanup"
    /\ SandboxSettle(c, IF ok THEN "resolved" ELSE "rejected")
    /\ sp_state' = IF ok THEN "destroyed" ELSE sp_state
    /\ sp_hist' = IF ok THEN [sp_hist EXCEPT !.cleaned = TRUE] ELSE sp_hist
    /\ UNCHANGED <<sp_initializationPromise, sp_events, sp_n>>

ProviderCallInitialize(c) == InitializeCalled(c) /\ UNCHANGED sandboxOthers

ProviderDoInitializeSettles(ok) == DoInitializeSettled(ok) /\ UNCHANGED sandboxOthers

ProviderInitializeSettles(c) == InitializeReturned(c) /\ UNCHANGED sandboxOthers

ProviderCallExecuteCode(c) == ExecuteCodeCalled(c) /\ UNCHANGED sandboxOthers

ProviderDoExecuteCodeSettles(c, ok) ==
    DoExecuteCodeSettled(c, ok) /\ UNCHANGED sandboxOthers

ProviderCallCleanup(c) == CleanupCalled(c) /\ UNCHANGED sandboxOthers

ProviderDoCleanupSettles(c, ok) == DoCleanupSettled(c, ok) /\ UNCHANGED sandboxOthers

NextSandbox ==
    \/ \E c \in CallerIds : ProviderCallInitialize(c)
    \/ \E ok \in BOOLEAN : ProviderDoInitializeSettles(ok)
    \/ \E c \in CallerIds : ProviderInitializeSettles(c)
    \/ \E c \in CallerIds : ProviderCallExecuteCode(c)
    \/ \E c \in CallerIds, ok \in BOOLEAN : ProviderDoExecuteCodeSettles(c, ok)
    \/ \E c \in CallerIds : ProviderCallCleanup(c)
    \/ \E c \in CallerIds, ok \in BOOLEAN : ProviderDoCleanupSettles(c, ok)

SpecSandbox == InitSandbox /\ [][NextSandbox]_vars

\* C34: over any interleaving of initialize calls on one provider, also
\* after a failed initialization and after cleanup, doInitialize is invoked
\* at most once and every initialize call that has settled settled with the
\* outcome of that invocation.
InitializeSettled(c) ==
    sp_call[c].op = "initialize" /\ sp_call[c].pc = "done"

C34_InitializeSingleFlight ==
    /\ sp_events.doInitialize <= 1
    /\ \A c \in CallerIds :
           InitializeSettled(c) =>
               /\ sp_events.doInitialize = 1
               /\ sp_call[c].outcome = sp_initializationPromise

\* an initialize call made after a successful cleanup has settled with the
\* outcome of the one invocation, and so has another caller's call
C34_Witness ==
    /\ sp_hist.cleaned
    /\ sp_state = "destroyed"
    /\ sp_events.doInitialize = 1
    /\ \A c \in CallerIds :
           InitializeSettled(c) /\ sp_call[c].outcome = "fulfilled"

\* an initialize call made after a failed initialization settles with the
\* failure of the one invocation
C34_WitnessAfterFailure ==
    /\ sp_state = "error"
    /\ sp_n >= 3
    /\ \A c \in CallerIds :
           InitializeSettled(c) /\ sp_call[c].outcome = "rejected"

\* C36: doExecuteCode is invoked only while the state is running; the state
\* is running only after doInitialize has succeeded and before cleanup has
\* succeeded; an executeCode that throws leaves the state as it was.
ExecutesOnlyWhileRunning == sp_hist.executedIn \subseteq {"running"}

RunningOnlyBetweenInitializeAndCleanup ==
    sp_state = "running" => sp_hist.initialized /\ ~sp_hist.cleaned

ThrowLeavesState ==
    /\ \A i \in DOMAIN sp_hist.thrown :
           /\ sp_hist.thrown[i].before # "running"
           /\ sp_hist.thrown[i].after = sp_hist.thrown[i].before
    /\ \A c \in CallerIds :
           sp_call[c].outcome = "notReady" => sp_hist.thrown # <<>>

C36_RunningOnlyBetweenInitializeAndCleanup ==
    /\ ExecutesOnlyWhileRunning
    /\ RunningOnlyBetweenInitializeAndCleanup
    /\ ThrowLeavesState

(***************************************************************************)
(* Specification SpecLifecycle: two callers call initialize, isReady,      *)
(* executeCode and cleanup on one orchestrator whose sandbox provider is a *)
(* BaseSandboxProvider; the bridge protocol is trpc and its promises       *)
(* resolve.                                                                *)
(***************************************************************************)
lifecycleOthers ==
    <<clockVars, authzVars, rateVars, tokenVars, bridgeVars, routerVars,
      cm_protocolName, cm_call, cm_events, cm_life, cm_n, ex_config, traceVars,
      stubVars, registryVars, runVars, dispatchVars, sp_call, sp_n,
      installVars,
      sessionVars>>

InitLifecycle == InitSandbox

LifecycleStart(c, call) ==
    /\ lc_call[c].pc \in {"idle", "done"}
    /\ lc_n < MaxLifecycleOps
    /\ lc_n' = lc_n + 1
    /\ lc_call' = [lc_call EXCEPT ![c] = call]

LifecycleSettle(c, outcome) ==
    lc_call' = [lc_call EXCEPT ![c] = [@ EXCEPT !.pc = "done",
                                                !.outcome = outcome]]

CleanupInFlight == \E c \in CallerIds : lc_call[c].pc = "sandboxCleanup"

\* CodeMode.initialize up to its first await
LifecycleCallInitialize(c) ==
    /\ IF cm_initialized
       THEN /\ LifecycleStart(c, [op |-> "initialize", pc |-> "done",
                                  outcome |-> "resolved"])
            /\ lc_fresh' = ~CleanupInFlight
            /\ UNCHANGED <<sp_state, sp_initializationPromise, sp_events>>
       ELSE LET r == initialize(sp_state, sp_initializationPromise)
            IN /\ LifecycleStart(c, [op |-> "initialize",
                                     pc |-> "sandboxInitialize",
                                     outcome |-> "none"])
               /\ sp_state' = r.state
               /\ sp_initializationPromise' = r.initializationPromise
               /\ sp_events' = IF r.doInitialize
                               THEN [sp_events EXCEPT !.doInitialize = @ + 1]
                               ELSE sp_events
               /\ UNCHANGED lc_fresh
    /\ UNCHANGED <<cm_initialized, cm_dependenciesInstalled, sp_hist, lc_last,
                   lifecycleOthers>>

LifecycleDoInitializeSettles(ok) ==
    /\ DoInitializeSettled(ok)
    /\ UNCHANGED <<cm_initialized, cm_dependenciesInstalled, lifecycleVars,
                   lifecycleOthers>>

\* the await of sandboxProvider.initialize continues
LifecycleSandboxInitializeSettles(c) ==
    /\ lc_call[c].pc = "sandboxInitialize"
    /\ sp_initializationPromise \in {"fulfilled", "rejected"}
    /\ lc_call' = [lc_call EXCEPT ![c] =
           IF sp_initializationPromise = "fulfilled"
           THEN [@ EXCEPT !.pc = "protocolInitialize"]
           ELSE [@ EXCEPT !.pc = "done", !.outcome = "rejected"]]
    /\ UNCHANGED <<cm_initialized, cm_dependenciesInstalled, sandboxVars,
                   lc_fresh, lc_last, lc_n, cm_protocolName, cm_call,
                   cm_events, cm_life, cm_n, ex_config, clockVars, authzVars,
                   rateVars, tokenVars, bridgeVars, routerVars, traceVars,
                   stubVars, registryVars, runVars, dispatchVars, installVars,
                   sessionVars>>

\* the await of bridgeProtocol.initialize continues: initialized = true
LifecycleProtocolInitializeSettles(c) ==
    /\ lc_call[c].pc = "protocolInitialize"
    /\ LifecycleSettle(c, "resolved")
    /\ cm_initialized' = TRUE
    /\ lc_fresh' = ~CleanupInFlight
    /\ UNCHANGED <<cm_dependenciesInstalled, sandboxVars, lc_last, lc_n,
                   cm_protocolName, cm_call, cm_events, cm_life, cm_n,
                   ex_config, clockVars, authzVars, rateVars, tokenVars,
                   bridgeVars, routerVars, traceVars, stubVars, registryVars,
                   runVars, dispatchVars, installVars, sessionVars>>

\* CodeMode.isReady: initialized && (await sandboxProvider.isReady())
LifecycleIsReady(c) ==
    LET ready == cm_initialized /\ sp_state = "running"
    IN /\ LifecycleStart(c, [op |-> "isReady", pc |-> "done",
                             outcome |-> IF ready THEN "true" ELSE "false"])
       /\ lc_last' = Some([op |-> "isReady", fresh |-> lc_fresh, ok |-> ready])
       /\ UNCHANGED <<cm_initialized, cm_dependenciesInstalled, lc_fresh,
                      sp_state, sp_initializationPromise, sp_events, sp_hist,
                      lifecycleOthers>>

\* CodeMode.executeCode up to its first await
LifecycleCallExecuteCode(c) ==
    /\ LifecycleStart(c, IF cm_initialized
                         THEN [op |-> "executeCode",
                               pc |-> "createExecutionToken",
                               outcome |-> "none"]
                         ELSE [op |-> "executeCode", pc |-> "done",
                               outcome |-> "notInitialized"])
    /\ UNCHANGED <<cm_initialized, cm_dependenciesInstalled, lc_fresh, lc_last,
                   sp_state, sp_initializationPromise, sp_events, sp_hist,
                   lifecycleOthers>>

\* executeCode from the wrapped code to the provider's guard: the code is
\* submitted with sandboxProvider.executeCode
LifecycleSubmit(c) ==
    LET entry == executeCodeEntry(sp_state)
    IN /\ lc_call' = [lc_call EXCEPT ![c] =
              IF entry = "notReady"
              THEN [@ EXCEPT !.pc = "done", !.outcome = "notReady"]
              ELSE [@ EXCEPT !.pc = "doExecuteCode"]]
       /\ lc_last' = Some([op |-> "executeCode", fresh |-> lc_fresh,
                           ok |-> entry # "notReady"])
       /\ sp_events' = IF entry = "doExecuteCode"
                       THEN [sp_events EXCEPT !.doExecuteCode = @ + 1]
                       ELSE sp_events
       /\ sp_hist' = IF entry = "doExecuteCode"
                     THEN [sp_hist EXCEPT !.executedIn = @ \cup {sp_state}]
                     ELSE [sp_hist EXCEPT
                               !.thrown = <<[before |-> sp_state,
                                             after |-> sp_state]>>]

\* the await of createExecutionToken continues
LifecycleTokenSettles(c) ==
    /\ lc_call[c].pc = "createExecutionToken"
    /\ IF ~cm_dependenciesInstalled
       THEN /\ lc_call' = [lc_call EXCEPT ![c].pc = "installDependencies"]
            /\ UNCHANGED <<lc_last, sp_events, sp_hist>>
       ELSE LifecycleSubmit(c)
    /\ UNCHANGED cm_dependenciesInstalled
    /\ UNCHANGED <<cm_initialized, lc_fresh, lc_n, sp_state,
                   sp_initializationPromise, lifecycleOthers>>

\* the await of installSandboxDependencies continues
LifecycleInstallSettles(c, ok) ==
    /\ lc_call[c].pc = "installDependencies"
    /\ IF ok
       THEN /\ cm_dependenciesInstalled' = TRUE
            /\ LifecycleSubmit(c)
       ELSE /\ LifecycleSettle(c, "rejected")
            /\ UNCHANGED <<cm_dependenciesInstalled, lc_last, sp_events, sp_hist>>
    /\ UNCHANGED <<cm_initialized, lc_fresh, lc_n, sp_state,
                   sp_initializationPromise, lifecycleOthers>>

\* doExecuteCode settles and executeCode returns the result
LifecycleDoExecuteCodeSettles(c, ok) ==
    /\ lc_call[c].pc = "doExecuteCode"
    /\ LifecycleSettle(c, IF ok THEN "result" ELSE "failureResult")
    /\ UNCHANGED <<cm_initialized, cm_dependenciesInstalled, lc_fresh, lc_last,
                   lc_n, sp_state, sp_initializationPromise, sp_events, sp_hist,
                   lifecycleOthers>>

\* CodeMode.cleanup up to its await of sandboxProvider.cleanup
LifecycleCallCleanup(c) ==
    /\ LifecycleStart(c, [op |-> "cleanup", pc |-> "sandboxCleanup",
                          outcome |-> "none"])
    /\ sp_events' = [sp_events EXCEPT !.doCleanup = @ + 1]
    /\ lc_fresh' = FALSE
    /\ UNCHANGED <<cm_initialized, cm_dependenciesInstalled, lc_last, sp_state,
                   sp_initializationPromise, sp_hist, lifecycleOthers>>

\* doCleanup settles; on success the provider is destroyed and the
\* orchestrator resets initialized and dependenciesInstalled
LifecycleCleanupSettles(c, ok) ==
    /\ lc_call[c].pc = "sandboxCleanup"
    /\ LifecycleSettle(c, IF ok THEN "resolved" ELSE "rejected")
    /\ sp_state' = IF ok THEN "destroyed" ELSE sp_state
    /\ sp_hist' = IF ok THEN [sp_hist EXCEPT !.cleaned = TRUE] ELSE sp_hist
    /\ cm_initialized' = IF ok THEN FALSE ELSE cm_initialized
    /\ cm_dependenciesInstalled' = IF ok THEN FALSE ELSE cm_dependenciesInstalled
    /\ UNCHANGED <<lc_fresh, lc_last, lc_n, sp_initializationPromise, sp_events,
                   lifecycleOthers>>

NextLifecycle ==
    \/ \E c \in CallerIds : LifecycleCallInitialize(c)
    \/ \E ok \in BOOLEAN : LifecycleDoInitializeSettles(ok)
    \/ \E c \in CallerIds : LifecycleSandboxInitializeSettles(c)
    \/ \E c \in CallerIds : LifecycleProtocolInitializeSettles(c)
    \/ \E c \in CallerIds : LifecycleIsReady(c)
    \/ \E c \in CallerIds : LifecycleCallExecuteCode(c)
    \/ \E c \in CallerIds : LifecycleTokenSettles(c)
    \/ \E c \in CallerIds, ok \in BOOLEAN : LifecycleInstallSettles(c, ok)
    \/ \E c \in CallerIds, ok \in BOOLEAN : LifecycleDoExecuteCodeSettles(c, ok)
    \/ \E c \in CallerIds : LifecycleCallCleanup(c)
    \/ \E c \in CallerIds, ok \in BOOLEAN : LifecycleCleanupSettles(c, ok)

SpecLifecycle == InitLifecycle /\ [][NextLifecycle]_vars

\* C35: whenever initialize() has resolved and no cleanup() has run since,
\* isReady() returns true and the sandbox provider accepts the code that
\* executeCode submits, also after an earlier cleanup().
C35_ReadyWheneverInitialized ==
    IsDefined(lc_last) /\ lc_last[1].fresh => lc_last[1].ok

\* one caller alone, each call awaited before the next, is not ready after
\* cleanup() and initialize()
SequentialNotReady ==
    /\ lc_call["q"] = IdleSandboxCall
    /\ IsDefined(lc_last) /\ lc_last[1].fresh /\ ~lc_last[1].ok

\* the same before any cleanup has succeeded
ReadyInFirstLife ==
    IsDefined(lc_last) /\ lc_last[1].fresh /\ ~sp_hist.cleaned => lc_last[1].ok

(***************************************************************************)
(* Specification SpecCodeMode: two callers call initialize, executeCode,   *)
(* getRequestHandler and cleanup on one orchestrator, without waiting for  *)
(* each other; the sandbox provider's promises resolve or reject.          *)
(***************************************************************************)
ProtocolNames == {"trpc", "test"}

cmRest ==
    <<clockVars, authzVars, rateVars, tokenVars, bridgeVars, routerVars, ex_config,
      traceVars, stubVars, registryVars, runVars, dispatchVars, sandboxVars,
      lifecycleVars, sessionVars>>

cmOthers == <<cmRest, installVars>>

InitCodeMode ==
    /\ ClockIdle
    /\ AuthzIdle
    /\ RateIdle
    /\ TokenIdle
    /\ BridgeIdle
    /\ RouterIdle
    /\ cm_initialized = FALSE
    /\ cm_dependenciesInstalled = FALSE
    /\ cm_protocolName \in ProtocolNames
    /\ cm_call = [c \in CallerIds |-> IdleCall]
    /\ cm_events = NoEvents
    /\ cm_life = "constructed"
    /\ cm_n = 0
    /\ ex_config = Undefined
    /\ TraceIdle
    /\ StubIdle
    /\ RegistryIdle
    /\ RunIdle
    /\ DispatchIdle
    /\ SandboxIdle
    /\ LifecycleIdle
    /\ InstallIdle
    /\ SessionIdle

\* a caller starts a call: `call` is the call record after the method has
\* run to its first await (or to its end)
Start(c, call) ==
    /\ cm_call[c].pc = "idle"
    /\ cm_n < MaxOps
    /\ cm_n' = cm_n + 1
    /\ cm_call' = [cm_call EXCEPT ![c] = call]

Settle(c, outcome) == [cm_call[c] EXCEPT !.pc = "idle", !.outcome = outcome]

\* CodeMode.initialize(), up to `await this.sandboxProvider.initialize(...)`
CallInitialize(c) ==
    /\ IF cm_initialized
       THEN /\ Start(c, [IdleCall EXCEPT !.op = "initialize",
                                         !.outcome = "resolved", !.life = cm_life])
            /\ UNCHANGED cm_events
       ELSE /\ Start(c, [IdleCall EXCEPT !.op = "initialize",
                                         !.pc = "sandboxInitialize", !.life = cm_life])
            /\ cm_events' = Invoked(cm_events, "sandboxInitialize")
    /\ UNCHANGED <<cm_initialized, cm_dependenciesInstalled, cm_protocolName, cm_life>>
    /\ UNCHANGED cmOthers

\* sandboxProvider.initialize settles; initialize() goes on to
\* `await this.bridgeProtocol.initialize(...)`, or rejects
SandboxInitializeSettles(c) ==
    /\ cm_call[c].pc = "sandboxInitialize"
    /\ \/ /\ cm_call' = [cm_call EXCEPT ![c].pc = "protocolInitialize"]
          /\ cm_events' = Invoked(cm_events, "protocolInitialize")
       \/ /\ cm_call' = [cm_call EXCEPT ![c] = Settle(c, "rejected")]
          /\ cm_events' = Invoked(cm_events, "rejections")
    /\ UNCHANGED <<cm_initialized, cm_dependenciesInstalled, cm_protocolName,
                   cm_life, cm_n>>
    /\ UNCHANGED cmOthers

\* bridgeProtocol.initialize resolves: this.initialized = true
ProtocolInitializeSettles(c) ==
    /\ cm_call[c].pc = "protocolInitialize"
    /\ cm_call' = [cm_call EXCEPT ![c] = Settle(c, "resolved")]
    /\ cm_initialized' = TRUE
    /\ cm_life' = "initialized"
    /\ cm_installed' = IF cm_initialized THEN cm_installed ELSE FALSE
    /\ UNCHANGED <<cm_dependenciesInstalled, cm_protocolName, cm_events, cm_n>>
    /\ UNCHANGED cmRest

\* executeCode keeping the token in a field of the orchestrator, which holds
\* the token minted last
Submit_SharedToken(call) ==
    [call EXCEPT !.pc = "sandboxExecuteCode",
                 !.submitted = cm_events["createExecutionToken"]]

\* executeCode, from "Generate the wrapped code" to
\* `await this.sandboxProvider.executeCode(wrappedCode)`: the stub carries
\* the call's own token
Submit(call) == [call EXCEPT !.pc = "sandboxExecuteCode", !.submitted = call.token]

\* executeCode without the check of this.initialized
CallExecuteCode_NoGuard(c) ==
    /\ Start(c, [IdleCall EXCEPT
                    !.op = "executeCode", !.pc = "createExecutionToken",
                    !.life = cm_life,
                    !.token = cm_events["createExecutionToken"] + 1])
    /\ cm_events' = Invoked(cm_events, "createExecutionToken")
    /\ UNCHANGED <<cm_initialized, cm_dependenciesInstalled, cm_protocolName, cm_life>>
    /\ UNCHANGED cmOthers

\* CodeMode.executeCode(code, config), up to
\* `await this.bridgeProtocol.createExecutionToken(executionContext)`
CallExecuteCode(c) ==
    /\ IF ~cm_initialized
       THEN /\ Start(c, [IdleCall EXCEPT !.op = "executeCode",
                                         !.outcome = "notInitialized",
                                         !.life = cm_life])
            /\ UNCHANGED cm_events
       ELSE /\ Start(c, [IdleCall EXCEPT
                            !.op = "executeCode", !.pc = "createExecutionToken",
                            !.life = cm_life,
                            !.token = cm_events["createExecutionToken"] + 1])
            /\ cm_events' = Invoked(cm_events, "createExecutionToken")
    /\ UNCHANGED <<cm_initialized, cm_dependenciesInstalled, cm_protocolName, cm_life>>
    /\ UNCHANGED cmOthers

\* the token arrives: `if (!this.dependenciesInstalled)
\* await this.installSandboxDependencies()`, else on to the sandbox
TokenSettles(c) ==
    /\ cm_call[c].pc = "createExecutionToken"
    /\ IF ~cm_dependenciesInstalled
       THEN /\ cm_call' = [cm_call EXCEPT ![c].pc = "installSandboxDependencies"]
            /\ cm_events' = IF needsDependencies(cm_protocolName)
                            THEN Invoked(cm_events, "installDependencies")
                            ELSE cm_events
       ELSE /\ cm_call' = [cm_call EXCEPT ![c] = Submit(cm_call[c])]
            /\ cm_events' = Invoked(cm_events, "sandboxExecuteCode")
    /\ UNCHANGED <<cm_initialized, cm_dependenciesInstalled, cm_protocolName,
                   cm_life, cm_n>>
    /\ UNCHANGED cmOthers

\* installSandboxDependencies settles: this.dependenciesInstalled = true and
\* on to the sandbox, or executeCode rejects
InstallSettles(c) ==
    /\ cm_call[c].pc = "installSandboxDependencies"
    /\ \/ /\ cm_call' = [cm_call EXCEPT ![c] = Submit(cm_call[c])]
          /\ cm_events' = Invoked(cm_events, "sandboxExecuteCode")
          /\ cm_dependenciesInstalled' = TRUE
          /\ cm_installed' = (cm_installed \/ needsDependencies(cm_protocolName))
       \/ /\ needsDependencies(cm_protocolName)
          /\ cm_call' = [cm_call EXCEPT ![c] = Settle(c, "rejected")]
          /\ cm_events' = Invoked(cm_events, "rejections")
          /\ UNCHANGED <<cm_dependenciesInstalled, cm_installed>>
    /\ UNCHANGED <<cm_initialized, cm_protocolName, cm_life, cm_n>>
    /\ UNCHANGED cmRest

\* sandboxProvider.executeCode settles and executeCode returns or rejects;
\* the promise resolves with the output of the code that was submitted to
\* it, and the toolCalls are parsed from that result
SandboxExecuteSettles(c) ==
    /\ cm_call[c].pc = "sandboxExecuteCode"
    /\ \/ cm_call' = [cm_call EXCEPT
                         ![c] = [Settle(c, "resolved") EXCEPT
                                    !.trace = cm_call[c].submitted]]
       \/ cm_call' = [cm_call EXCEPT ![c] = Settle(c, "rejected")]
    /\ UNCHANGED <<cm_initialized, cm_dependenciesInstalled, cm_protocolName,
                   cm_events, cm_life, cm_n>>
    /\ UNCHANGED cmOthers

\* CodeMode.getRequestHandler()
GetRequestHandler(c) ==
    /\ Start(c, [IdleCall EXCEPT !.op = "getRequestHandler",
                                 !.life = cm_life,
                                 !.outcome = IF cm_initialized THEN "resolved"
                                             ELSE "notInitialized"])
    /\ UNCHANGED <<cm_initialized, cm_dependenciesInstalled, cm_protocolName,
                   cm_events, cm_life>>
    /\ UNCHANGED cmOthers

\* CodeMode.cleanup(), up to `await this.sandboxProvider.cleanup()`
CallCleanup(c) ==
    /\ Start(c, [IdleCall EXCEPT !.op = "cleanup", !.pc = "sandboxCleanup",
                                 !.life = cm_life])
    /\ cm_events' = Invoked(cm_events, "sandboxCleanup")
    /\ UNCHANGED <<cm_initialized, cm_dependenciesInstalled, cm_protocolName, cm_life>>
    /\ UNCHANGED cmOthers

\* sandboxProvider.cleanup settles: both flags are reset, or cleanup rejects
CleanupSettles(c) ==
    /\ cm_call[c].pc = "sandboxCleanup"
    /\ \/ /\ cm_call' = [cm_call EXCEPT ![c] = Settle(c, "resolved")]
          /\ cm_initialized' = FALSE
          /\ cm_dependenciesInstalled' = FALSE
          /\ cm_life' = "cleaned"
          /\ cm_installed' = FALSE
       \/ /\ cm_call' = [cm_call EXCEPT ![c] = Settle(c, "rejected")]
          /\ UNCHANGED <<cm_initialized, cm_dependenciesInstalled, cm_life,
                         cm_installed>>
    /\ UNCHANGED <<cm_protocolName, cm_events, cm_n>>
    /\ UNCHANGED cmRest

NextCodeMode ==
    \E c \in CallerIds :
        \/ CallInitialize(c)
        \/ SandboxInitializeSettles(c)
        \/ ProtocolInitializeSettles(c)
        \/ CallExecuteCode(c)
        \/ TokenSettles(c)
        \/ InstallSettles(c)
        \/ SandboxExecuteSettles(c)
        \/ GetRequestHandler(c)
        \/ CallCleanup(c)
        \/ CleanupSettles(c)

SpecCodeMode == InitCodeMode /\ [][NextCodeMode]_vars

\* C37: once cleanup() has completed and until initialize() has completed
\* again, no step submits code to the sandbox provider or asks it to install
\* dependencies, also not a step of an executeCode call that was in flight
\* when cleanup() was called.
SubmitsOrInstalls ==
    \/ cm_events'["sandboxExecuteCode"] > cm_events["sandboxExecuteCode"]
    \/ cm_events'["installDependencies"] > cm_events["installDependencies"]

QuietAfterCleanup == SubmitsOrInstalls => cm_life # "cleaned"

C37_NothingSubmittedAfterCleanup == [][QuietAfterCleanup]_vars

\* C38: under trpc every submission of code to the sandbox provider is
\* preceded by an installDependencies call that has completed successfully
\* since initialize or cleanup last completed, and an executeCode call whose
\* installDependencies fails submits nothing.
Submits == cm_events'["sandboxExecuteCode"] > cm_events["sandboxExecuteCode"]

InstallFails(c) ==
    /\ cm_call[c].pc = "installSandboxDependencies"
    /\ cm_call'[c].outcome = "rejected"

SubmittedAfterInstall ==
    cm_protocolName = "trpc" =>
        /\ Submits => cm_installed'
        /\ (\E c \in CallerIds : InstallFails(c)) => ~Submits

C38_SubmissionsFollowAnInstall == [][SubmittedAfterInstall]_vars

\* the same while no cleanup() has been called
SubmittedAfterInstallFirstLife ==
    cm_protocolName = "trpc" /\ cm_events["sandboxCleanup"] = 0 =>
        /\ Submits => cm_installed'
        /\ (\E c \in CallerIds : InstallFails(c)) => ~Submits

FirstLifeSubmissionsFollowAnInstall == [][SubmittedAfterInstallFirstLife]_vars

\* the same for the executeCode calls that start after cleanup() completed
StartedAfterCleanupQuiet ==
    \A c \in CallerIds :
        cm_call[c].op = "executeCode" /\ cm_call[c].life = "cleaned" =>
            cm_call[c].pc \in {"idle", "done"} /\ cm_call[c].outcome = "notInitialized"

(***************************************************************************)
(* Specification SpecExecToken: an initialized orchestrator over the tRPC  *)
(* protocol mints the token of one executeCode call; the bridge verifies   *)
(* it as the clock advances.                                               *)
(***************************************************************************)
ExecBridgeConfigs ==
    [tokenConfig : TokenConfigs, enableRateLimiting : {Undefined},
     defaultRateLimit : {Undefined}]

execOthers == <<authzVars, rateVars, routerVars, traceVars, stubVars,
                tools, bp_config, bp_registry,
                bd_last, bd_k, bd_n, cm_initialized, cm_dependenciesInstalled,
                cm_protocolName, cm_call, cm_events, cm_life, cm_n,
      registryVars,
      runVars,
      dispatchVars,
      sandboxVars,
      lifecycleVars,
      installVars,
      sessionVars>>

InitExecToken ==
    /\ ClockIdle
    /\ AuthzIdle
    /\ RateIdle
    /\ TokenIdle
    /\ RouterIdle
    /\ tools \in Registries
    /\ bp_config \in {Some(c) : c \in ExecBridgeConfigs}
    /\ bp_registry = Some("registry")
    /\ bd_last = Undefined
    /\ bd_k = [u \in UserIds |-> [n \in ToolNames |-> 0]]
    /\ bd_n = 0
    /\ cm_initialized = TRUE
    /\ cm_dependenciesInstalled = FALSE
    /\ cm_protocolName = "trpc"
    /\ cm_call = [c \in CallerIds |-> IdleCall]
    /\ cm_events = NoEvents
    /\ cm_life = "initialized"
    /\ cm_n = 0
    /\ ex_config = Undefined
    /\ TraceIdle
    /\ StubIdle
    /\ RegistryIdle
    /\ RunIdle
    /\ DispatchIdle
    /\ SandboxIdle
    /\ LifecycleIdle
    /\ InstallIdle
    /\ SessionIdle

\* executeCode(code, config): startTime, the execution context and
\* bridgeProtocol.createExecutionToken(executionContext), at one clock reading
ExecuteCodeMint ==
    /\ tok = Undefined
    /\ \E config \in ExecutionConfigs :
          LET context == executionContext(config, now)
          IN  /\ ex_config' = Some(config)
              /\ tok' = Some(trpcCreateExecutionToken(bp_config[1].tokenConfig,
                                                      context, now))
              /\ tok_issue' = Some([by |-> "trpc",
                                    config |-> bp_config[1].tokenConfig,
                                    context |-> context, at |-> now])
    /\ tv_last' = Undefined
    /\ UNCHANGED <<clockVars, execOthers>>

\* the bridge verifies the call's token
ExecBridgeVerify ==
    /\ IsDefined(tok)
    /\ tv_last' = Some([by |-> "trpc", config |-> Some(bp_config[1].tokenConfig),
                        out |-> trpcVerifyExecutionToken(
                                    Some(bp_config[1].tokenConfig), tok[1], now)])
    /\ UNCHANGED <<clockVars, tok, tok_issue, ex_config, execOthers>>

ExecTick ==
    /\ Tick(TokenDeltas)
    /\ tv_last' = Undefined
    /\ UNCHANGED <<tok, tok_issue, ex_config, execOthers>>

NextExecToken == ExecuteCodeMint \/ ExecBridgeVerify \/ ExecTick

SpecExecToken == InitExecToken /\ [][NextExecToken]_vars

(***************************************************************************)
(* Specification SpecSession: executeCode is invoked several times on an   *)
(* initialized orchestrator, with and without a sessionId in its config,   *)
(* at the same and at later clock readings; each invocation builds its     *)
(* execution context.                                                      *)
(***************************************************************************)
SessionConfigs ==
    {config \in ExecutionConfigs :
        ~IsDefined(config.timeoutMs) /\ ~IsDefined(config.scopes)}

SessionDeltas == {1, 1000}

sessionOthers ==
    <<authzVars, rateVars, tokenVars, bridgeVars, routerVars, cm_initialized,
      cm_dependenciesInstalled, cm_protocolName, cm_call, cm_events, cm_life,
      cm_n, ex_config, traceVars, stubVars, registryVars, runVars,
      dispatchVars, sandboxVars, lifecycleVars, installVars>>

InitSession == InitExecToken

\* executeCode(code, config), from startTime to the execution context
SessionExecuteCode ==
    /\ Len(ss_calls) < MaxSessions
    /\ \E config \in SessionConfigs :
          ss_calls' = Append(ss_calls,
                             [config |-> config, at |-> now,
                              context |-> executionContext(config, now)])
    /\ UNCHANGED <<clockVars, sessionOthers>>

SessionTick ==
    /\ Tick(SessionDeltas)
    /\ UNCHANGED <<ss_calls, sessionOthers>>

NextSession == SessionExecuteCode \/ SessionTick

SpecSession == InitSession /\ [][NextSession]_vars

\* C40: two executeCode invocations whose config names no sessionId get
\* different session identifiers, also when both start at the same clock
\* reading.
Unspecified(i) == ~IsDefined(ss_calls[i].config.sessionId)

C40_FreshSessionIdsDiffer ==
    \A i, j \in DOMAIN ss_calls :
        i # j /\ Unspecified(i) /\ Unspecified(j) =>
            ss_calls[i].context.sessionId # ss_calls[j].context.sessionId

\* the same for invocations at different clock readings
FreshSessionIdsDifferAcrossReadings ==
    \A i, j \in DOMAIN ss_calls :
        i # j /\ Unspecified(i) /\ Unspecified(j)
              /\ ss_calls[i].at # ss_calls[j].at =>
            ss_calls[i].context.sessionId # ss_calls[j].context.sessionId

(***************************************************************************)
(* Specification SpecTrace: the sandbox has returned an output of at most  *)
(* MaxLines lines, and executeCode builds its result from it.              *)
(***************************************************************************)
traceOthers ==
    <<clockVars, authzVars, rateVars, tokenVars, bridgeVars, routerVars,
      cm_initialized, cm_dependenciesInstalled, cm_protocolName, cm_call,
      cm_events, cm_life, cm_n, ex_config, stubVars,
      registryVars,
      runVars,
      dispatchVars,
      sandboxVars,
      lifecycleVars,
      installVars,
      sessionVars>>

InitTrace ==
    /\ ClockIdle
    /\ AuthzIdle
    /\ RateIdle
    /\ TokenIdle
    /\ BridgeIdle
    /\ RouterIdle
    /\ cm_initialized = TRUE
    /\ cm_dependenciesInstalled = TRUE
    /\ cm_protocolName = "trpc"
    /\ cm_call = [c \in CallerIds |-> IdleCall]
    /\ cm_events = NoEvents
    /\ cm_life = "initialized"
    /\ cm_n = 0
    /\ ex_config = Undefined
    /\ StubIdle
    /\ tr_output \in Outputs
    /\ tr_result = Undefined
    /\ RegistryIdle
    /\ RunIdle
    /\ DispatchIdle
    /\ SandboxIdle
    /\ LifecycleIdle
    /\ InstallIdle
    /\ SessionIdle

\* executeCode, from the result of sandboxProvider.executeCode to the return
ExecuteCodeReturns ==
    /\ tr_result = Undefined
    /\ tr_result' = Some(executeCodeResult(tr_output))
    /\ UNCHANGED <<tr_output, traceOthers>>

NextTrace == ExecuteCodeReturns

SpecTrace == InitTrace /\ [][NextTrace]_vars

(***************************************************************************)
(* Specification SpecStub: code in the sandbox calls the proxies of one    *)
(* generated runtime, up to two calls at a time (Promise.all); requests    *)
(* succeed or fail.                                                        *)
(***************************************************************************)
MaxConsoleLines == 4

stubOthers ==
    <<clockVars, authzVars, rateVars, tokenVars, bridgeVars, routerVars,
      cm_initialized, cm_dependenciesInstalled, cm_protocolName, cm_call,
      cm_events, cm_life, cm_n, ex_config, traceVars,
      registryVars,
      runVars,
      dispatchVars,
      sandboxVars,
      lifecycleVars,
      installVars,
      sessionVars>>

InitStub ==
    /\ ClockIdle
    /\ AuthzIdle
    /\ RateIdle
    /\ TokenIdle
    /\ BridgeIdle
    /\ RouterIdle
    /\ cm_initialized = TRUE
    /\ cm_dependenciesInstalled = TRUE
    /\ cm_protocolName = "trpc"
    /\ cm_call = [c \in CallerIds |-> IdleCall]
    /\ cm_events = NoEvents
    /\ cm_life = "initialized"
    /\ cm_n = 0
    /\ ex_config = Undefined
    /\ TraceIdle
    /\ \E r \in Runtimes :
          st_call = [c \in CallerIds |-> [IdleProxyCall EXCEPT !.runtime = r]]
    /\ st_console = <<>>
    /\ RegistryIdle
    /\ RunIdle
    /\ DispatchIdle
    /\ SandboxIdle
    /\ LifecycleIdle
    /\ InstallIdle
    /\ SessionIdle

\* the proxy logs the call-success marker and returns the result
Succeed(c) ==
    /\ st_console' = consoleLog(st_console, "TOOL_RESULT", st_call[c].tool,
                                ResultPayload)
    /\ st_call' = [st_call EXCEPT ![c].pc = "idle", ![c].settled = "returned",
                                  ![c].request = "succeeded",
                                  ![c].events = Append(@, "TOOL_RESULT")]

\* a catch block that rethrows without logging
Fail_Silent(c) ==
    /\ UNCHANGED st_console
    /\ st_call' = [st_call EXCEPT ![c].pc = "idle", ![c].settled = "threw",
                                  ![c].request = "failed"]

\* the catch block: the proxy logs the call-error marker and rethrows
Fail(c) ==
    /\ st_console' = consoleLog(st_console, "TOOL_ERROR", st_call[c].tool,
                                ErrorPayload)
    /\ st_call' = [st_call EXCEPT ![c].pc = "idle", ![c].settled = "threw",
                                  ![c].request = "failed",
                                  ![c].events = Append(@, "TOOL_ERROR")]

\* tools.<name>(input), up to the await of the request
ProxyCalled(c) ==
    /\ st_call[c].pc = "idle"
    /\ Len(st_console) < MaxConsoleLines
    /\ \E tool \in TraceTools, input \in ProxyInputs :
          LET text == JSONstringify(input)
              call == [IdleProxyCall EXCEPT !.runtime = st_call[c].runtime,
                                            !.tool = tool, !.input = input]
          IN  IF text.threw
              THEN /\ st_call' = [st_call EXCEPT ![c] =
                                    [call EXCEPT !.settled = "threw"]]
                   /\ UNCHANGED st_console
              ELSE /\ st_console' = consoleLog(st_console, "TOOL_CALL", tool,
                                               text.text)
                   /\ st_call' = [st_call EXCEPT ![c] =
                                    [call EXCEPT
                                        !.pc = IF call.runtime = "trpc"
                                               THEN "trpcRequest" ELSE "fetch",
                                        !.events = <<"TOOL_CALL", "request">>]]

CallProxy(c) == ProxyCalled(c) /\ UNCHANGED stubOthers

\* tRPC runtime: trpcClient.<name>.query/mutate(input) settles
TRPCRequestSettles(c) ==
    /\ st_call[c].pc = "trpcRequest"
    /\ Succeed(c) \/ Fail(c)
    /\ UNCHANGED stubOthers

\* fetch runtime: fetch(...) rejects, or resolves with a response that is
\* not ok (the proxy throws), or with one that is ok
FetchSettles(c) ==
    /\ st_call[c].pc = "fetch"
    /\ \/ Fail(c)
       \/ /\ st_call' = [st_call EXCEPT ![c].pc = "responseJson"]
          /\ UNCHANGED st_console
    /\ UNCHANGED stubOthers

\* fetch runtime: response.json() rejects, or the body carries an error (the
\* proxy throws), or it carries the result
ResponseJsonSettles(c) ==
    /\ st_call[c].pc = "responseJson"
    /\ Succeed(c) \/ Fail(c)
    /\ UNCHANGED stubOthers

NextStub ==
    \E c \in CallerIds :
        \/ CallProxy(c)
        \/ TRPCRequestSettles(c)
        \/ FetchSettles(c)
        \/ ResponseJsonSettles(c)

SpecStub == InitStub /\ [][NextStub]_vars

(***************************************************************************)
(* Specification SpecRun: one execution of user code in the sandbox.  The  *)
(* code calls proxies, up to two calls at a time, and prints lines of its  *)
(* own; the proxies' markers and the code's lines go to the same output,  *)
(* from which executeCode builds its result when the sandbox returns.      *)
(***************************************************************************)
runOthers ==
    <<clockVars, authzVars, rateVars, tokenVars, bridgeVars, routerVars,
      cm_initialized, cm_dependenciesInstalled, cm_protocolName, cm_call,
      cm_events, cm_life, cm_n, ex_config, registryVars,
      dispatchVars,
      sandboxVars,
      lifecycleVars,
      installVars,
      sessionVars>>

\* what user code passes to console.log: plain text, or the text of a marker
UserLines ==
    {TextLine(<<"x">>),
     MarkerLine("TOOL_CALL", "a", "{}"),
     MarkerLine("TOOL_RESULT", "a", ResultPayload),
     MarkerLine("TOOL_ERROR", "a", ErrorPayload)}

InitRun == InitStub

Running == tr_result = Undefined

\* the last call caller c made through a proxy
CallOf(c) ==
    CHOOSE i \in 1..Len(run_calls) :
        /\ run_calls[i].caller = c
        /\ \A j \in 1..Len(run_calls) : run_calls[j].caller = c => j <= i

\* run_calls after a step of caller c's proxy call
RecordOutcome(c) ==
    run_calls' = IF st_call'[c].pc = "idle"
                 THEN [run_calls EXCEPT ![CallOf(c)].outcome = st_call'[c].settled]
                 ELSE run_calls

\* user code calls tools.<name>(input)
RunCallProxy(c) ==
    /\ Running
    /\ ProxyCalled(c)
    /\ run_calls' = IF Len(st_console') > Len(st_console)
                    THEN Append(run_calls, [caller |-> c, tool |-> st_call'[c].tool,
                                            outcome |-> "pending"])
                    ELSE run_calls
    /\ UNCHANGED <<traceVars, runOthers>>

RunTRPCRequestSettles(c) ==
    /\ Running
    /\ st_call[c].pc = "trpcRequest"
    /\ Succeed(c) \/ Fail(c)
    /\ RecordOutcome(c)
    /\ UNCHANGED <<traceVars, runOthers>>

RunFetchSettles(c) ==
    /\ Running
    /\ st_call[c].pc = "fetch"
    /\ \/ Fail(c)
       \/ /\ st_call' = [st_call EXCEPT ![c].pc = "responseJson"]
          /\ UNCHANGED st_console
    /\ RecordOutcome(c)
    /\ UNCHANGED <<traceVars, runOthers>>

RunResponseJsonSettles(c) ==
    /\ Running
    /\ st_call[c].pc = "responseJson"
    /\ Succeed(c) \/ Fail(c)
    /\ RecordOutcome(c)
    /\ UNCHANGED <<traceVars, runOthers>>

\* user code calls console.log itself
UserPrints ==
    /\ Running
    /\ Len(st_console) < MaxConsoleLines
    /\ \E line \in UserLines : st_console' = Append(st_console, line)
    /\ UNCHANGED <<st_call, run_calls, traceVars, runOthers>>

\* sandboxProvider.executeCode(wrappedCode) resolves with the output, and
\* executeCode parses it and returns
RunReturns ==
    /\ Running
    /\ tr_output' = join(st_console)
    /\ tr_result' = Some(executeCodeResult(join(st_console)))
    /\ UNCHANGED <<st_call, st_console, run_calls, runOthers>>

NextRun ==
    \/ \E c \in CallerIds :
          \/ RunCallProxy(c)
          \/ RunTRPCRequestSettles(c)
          \/ RunFetchSettles(c)
          \/ RunResponseJsonSettles(c)
    \/ UserPrints
    \/ RunReturns

SpecRun == InitRun /\ [][NextRun]_vars

(***************************************************************************)
(* Specification SpecRegistry: callers register definitions in a registry  *)
(* that starts empty, execute tools through it and ask it for the type     *)
(* definitions.                                                            *)
(***************************************************************************)
registryOthers ==
    <<clockVars, authzVars, rateVars, tokenVars, routerVars,
      bp_config, bp_registry, bd_last, bd_k, bd_n,
      cm_initialized, cm_dependenciesInstalled, cm_protocolName, cm_call,
      cm_events, cm_life, cm_n, ex_config, traceVars, stubVars,
      runVars,
      dispatchVars,
      sandboxVars,
      lifecycleVars,
      installVars,
      sessionVars>>

InitRegistry ==
    /\ ClockIdle
    /\ AuthzIdle
    /\ RateIdle
    /\ TokenIdle
    /\ BridgeIdle
    /\ RouterIdle
    /\ cm_initialized = FALSE
    /\ cm_dependenciesInstalled = FALSE
    /\ cm_protocolName = "trpc"
    /\ cm_call = [c \in CallerIds |-> IdleCall]
    /\ cm_events = NoEvents
    /\ cm_life = "constructed"
    /\ cm_n = 0
    /\ ex_config = Undefined
    /\ TraceIdle
    /\ StubIdle
    /\ rg_options \in RegistryOptions
    /\ rg_history = <<>>
    /\ rg_last = Undefined
    /\ rg_text = Undefined
    /\ RunIdle
    /\ DispatchIdle
    /\ SandboxIdle
    /\ LifecycleIdle
    /\ InstallIdle
    /\ SessionIdle

\* registry.register(tool)
Register ==
    /\ Len(rg_history) < MaxRegistrations
    /\ \E tool \in ToolDefinitions :
          LET r == register(tools, tool)
          IN  /\ tools' = r.tools
              /\ rg_history' = Append(rg_history, tool)
              /\ rg_last' = Some([op |-> "register", tool |-> tool,
                                  warned |-> r.warned])
    /\ rg_text' = Undefined
    /\ UNCHANGED <<rg_options, registryOthers>>

\* registry.executeTool(name, input, context), with a tool.execute that
\* behaves as `behaviour` says
ExecuteTool ==
    /\ \E name \in ToolNames \cup {"unknownTool"}, input \in JsonValues,
          context \in RegistryContexts, behaviour \in ExecutorBehaviours :
          rg_last' = Some([op |-> "executeTool", name |-> name, input |-> input,
                           context |-> context, behaviour |-> behaviour,
                           out |-> registryExecuteTool(tools, rg_options, name,
                                                       input, context, behaviour)])
    /\ rg_text' = Undefined
    /\ UNCHANGED <<tools, rg_options, rg_history, registryOthers>>

\* registry.generateTypeDefinitions(); rg_text keeps the text returned and,
\* when the call before was generateTypeDefinitions too, the text of that one
GenerateTypeDefinitions ==
    /\ rg_text' = Some([text   |-> generateTypeDefinitions(tools),
                        before |-> IF IsDefined(rg_text) THEN Some(rg_text[1].text)
                                   ELSE Undefined])
    /\ rg_last' = Undefined
    /\ UNCHANGED <<tools, rg_options, rg_history, registryOthers>>

NextRegistry == Register \/ ExecuteTool \/ GenerateTypeDefinitions

SpecRegistry == InitRegistry /\ [][NextRegistry]_vars

(***************************************************************************)
(* Claims about scope authorization (SpecAuthz).                           *)
(***************************************************************************)

\* the authorize rule of the specification, on the scope sets S and R
AuthorizeRule(S, R) ==
    R = {} \/ "*" \in R \/ "*" \in S \/ S \cap R # {}

\* C1: for every context with scopes S and every required-scope list R,
\* checkAuthorization(context, R) is true exactly when R is empty, R contains
\* "*", S contains "*", or S and R share a scope.
C1_AuthorizeIffRule ==
    IsDefined(az_auth) =>
        (az_auth[1] <=> AuthorizeRule(Range(az_ctx.scopes),
                                      Range(OrElse(az_req, <<>>))))

\* C1 witness: a context holding only the wildcard is let through a list of
\* required scopes that names no wildcard.
C1_Witness ==
    /\ az_auth = Some(TRUE)
    /\ az_ctx.scopes = <<"*">>
    /\ az_req = Some(<<"admin", "read">>)

\* C7: on the router path the scope decision equals the authorize rule for
\* every context and every requiredScopes value (empty, undefined or a list
\* with "*": everyone; otherwise holders of "*" or of a required scope).
C7_RouterDecisionIsAuthorizeRule ==
    IsDefined(az_router) =>
        (az_router[1] <=> AuthorizeRule(Range(az_ctx.scopes),
                                        Range(OrElse(az_req, <<>>))))

(***************************************************************************)
(* Claims about the rate limiter (SpecRate).                               *)
(***************************************************************************)

\* C8: for every limit n >= 0 and every user, once n calls of
\* checkRateLimit(user, n) have been made in one window, the next call in
\* that window returns allowed = false with remaining = 0.
C8_CallBeyondLimitDenied ==
    IsDefined(rl_last) =>
        (rl_last[1].prior >= rl_last[1].maxPerMinute =>
            /\ ~rl_last[1].result.allowed
            /\ rl_last[1].result.remaining = 0)

\* C9: after a denial that reported resetIn = r seconds, the same user's next
\* call, made once r seconds have elapsed since the denial, is allowed and
\* opens a new 60-second window with count 1.
C9_AllowedOnceResetInElapsed ==
    IsDefined(rl_last) =>
        LET c == rl_last[1]
        IN  (/\ IsDefined(c.afterDenial)
             /\ c.at >= c.afterDenial[1].at + 1000 * c.afterDenial[1].resetIn)
            => /\ c.result.allowed
               /\ rateLimitStore[c.userId] =
                      Some([count |-> 1, resetTime |-> c.at + 60000])

(***************************************************************************)
(* Claims about execution tokens (SpecToken).                              *)
(***************************************************************************)

\* the audience a verifier expects: the configured one, else its default
ExpectedAudience(by, config) ==
    OrElse(config.audience, IF by = "utils" THEN "tool-bridge" ELSE "tool-bridge-trpc")

Accepted(v) == v.out.kind = "context"

\* C3: a verifier returns a context only if the token's signature is that of
\* its payload under config.secretKey, its audience is the configured (or
\* default) one, and the current time is before its expiresAt (seconds).
C3_AcceptedOnlyIfSignedAudienceUnexpired ==
    (IsDefined(tv_last) /\ Accepted(tv_last[1])) =>
        /\ IsDefined(tv_last[1].config)
        /\ tok[1].wellFormed
        /\ tok[1].intact
        /\ tok[1].sigKey = tv_last[1].config[1].secretKey
        /\ tok[1].payload.aud = ExpectedAudience(tv_last[1].by, tv_last[1].config[1])
        /\ now < 1000 * tok[1].payload.exp

\* C3 witness: the tRPC verifier accepts a token
C3_Witness ==
    /\ IsDefined(tv_last)
    /\ Accepted(tv_last[1])
    /\ tv_last[1].by = "trpc"

\* a verification of an issued, unaltered token by the issuer's own verifier
\* under the config it was issued with
SameConfigVerification ==
    /\ IsDefined(tv_last)
    /\ IsDefined(tok_issue)
    /\ tv_last[1].by = tok_issue[1].by
    /\ tv_last[1].config = Some(tok_issue[1].config)

IssuedLifetime == OrElse(tok_issue[1].config.expirationSeconds, 300)

\* C4 as claimed: a token issued at t0 with expirationSeconds = s (default
\* 300) and verified with the same config is accepted at every time
\* t < t0 + s and rejected at every time t >= t0 + s.
C4_AcceptedUntilIssuePlusLifetime ==
    SameConfigVerification =>
        (Accepted(tv_last[1]) <=> now < tok_issue[1].at + 1000 * IssuedLifetime)

\* C4 as amended: with both clock readings cut to whole seconds, the token
\* is accepted exactly while floor(t) < floor(t0) + s.
C4_AcceptedUntilIssueSecondPlusLifetime ==
    SameConfigVerification =>
        (Accepted(tv_last[1]) <=> epoch(now) < epoch(tok_issue[1].at) + IssuedLifetime)

\* C4 witness: a token issued between two seconds is already rejected less
\* than s seconds after its issue
C4_Witness ==
    /\ SameConfigVerification
    /\ ~Accepted(tv_last[1])
    /\ now < tok_issue[1].at + 1000 * IssuedLifetime

(***************************************************************************)
(* Claims about dispatch through the bridge protocol (Spec).               *)
(***************************************************************************)

\* the outcome of a dispatch: its failure code, or "OK"
Outcome(d) == IF d.result.success THEN "OK" ELSE d.result.code

Registered(d) == IsDefined(d.tool)

Authorized(d) ==
    /\ Registered(d)
    /\ AuthorizeRule(Range(d.context.scopes),
                     Range(OrElse(d.tool[1].requiredScopes, <<>>)))

\* rate limiting is enabled and the user's window already holds the limit
Limited(d) == d.enabled /\ d.exhausted

\* C2: a dispatch on an initialized protocol returns NOT_FOUND exactly when
\* the tool is not registered, otherwise FORBIDDEN exactly when the context is
\* not authorized, otherwise RATE_LIMITED exactly when rate limiting is
\* enabled and the user's limit is exhausted; the executor runs at most once,
\* only when none of these applies, and then exactly once for a valid input.
C2_ChecksInOrderExecutorAtMostOnce ==
    (IsDefined(bd_last) /\ bd_last[1].initialized) =>
        LET d == bd_last[1]
        IN  /\ (Outcome(d) = "NOT_FOUND") <=> ~Registered(d)
            /\ (Outcome(d) = "FORBIDDEN") <=> (Registered(d) /\ ~Authorized(d))
            /\ (Outcome(d) = "RATE_LIMITED") <=> (Authorized(d) /\ Limited(d))
            /\ d.executorCalls <= 1
            /\ (d.executorCalls = 1) <=>
                   (Authorized(d) /\ ~Limited(d) /\ d.input = "valid")

\* C2 witness: a dispatch that is both unauthorized and over the user's
\* limit, with rate limiting enabled, is answered FORBIDDEN
C2_Witness ==
    /\ IsDefined(bd_last)
    /\ bd_last[1].initialized
    /\ Registered(bd_last[1])
    /\ ~Authorized(bd_last[1])
    /\ Limited(bd_last[1])
    /\ Outcome(bd_last[1]) = "FORBIDDEN"

\* C10: with rate limiting enabled, a user's k-th dispatch of tool t within
\* one window fails with RATE_LIMITED if and only if k exceeds t's limit (its
\* own rateLimit, else the bridge default), whatever the user dispatched of
\* other tools in that window.
C10_RateLimitedIffOwnCountExceedsLimit ==
    (IsDefined(bd_last) /\ bd_last[1].k > 0) =>
        ((Outcome(bd_last[1]) = "RATE_LIMITED") <=>
            (bd_last[1].k > toolLimit(bd_last[1].tool[1], bp_config[1])))

(***************************************************************************)
(* Claims about the tRPC endpoint (SpecRouter).                            *)
(***************************************************************************)

\* the token in flight is one the verifier `by` must accept under `config`
\* now: a JWT signed with the config's key, unaltered, for the expected
\* audience and not yet expired
TokenValid(by, config) ==
    /\ IsDefined(config)
    /\ IsDefined(tok)
    /\ tok[1].wellFormed
    /\ tok[1].intact
    /\ tok[1].sigKey = config[1].secretKey
    /\ tok[1].payload.aud = ExpectedAudience(by, config[1])
    /\ now < 1000 * tok[1].payload.exp

\* the last request carried no Bearer header, or a Bearer header whose
\* token is invalid for the protocol
RequestUnauthenticated ==
    /\ IsDefined(rq_last)
    /\ \/ rq_last[1].scheme # "Bearer"
       \/ ~TokenValid("trpc", Some(bp_config[1].tokenConfig))

\* C5: a request whose token is missing or invalid runs no stage of the
\* chain after isAuthenticated: no scope check, no change of a rate-limit
\* entry, no parse of the tool input and no call of a tool executor.
C5_UnauthenticatedStopsAtFirstStage ==
    RequestUnauthenticated =>
        /\ rq_last[1].stages = <<"isAuthenticated">>
        /\ ~rq_last[1].storeChanged
        /\ rq_last[1].executorCalls = 0

\* C5 witness: a Bearer request with an expired but otherwise valid token,
\* for a tool open to all, with a valid input
C5_Witness ==
    /\ RequestUnauthenticated
    /\ rq_last[1].scheme = "Bearer"
    /\ tok[1].wellFormed /\ tok[1].intact
    /\ tok[1].sigKey = bp_config[1].tokenConfig.secretKey
    /\ tok[1].payload.aud = "tool-bridge-trpc"
    /\ now >= 1000 * tok[1].payload.exp
    /\ rq_last[1].toolName = "alpha"
    /\ rq_last[1].input = "valid"
    /\ rq_last[1].stages = <<"isAuthenticated">>

\* C6: both verifiers return null, and never throw, for a token that is
\* malformed, badly signed, for another audience or expired; and the
\* endpoint answers a request with no Authorization header, with a header
\* of another scheme and with a Bearer header carrying an invalid token with
\* the same UNAUTHORIZED error and message.
C6_AuthenticationFailureUndifferentiated ==
    /\ IsDefined(tv_last) =>
          /\ tv_last[1].out.kind # "throw"
          /\ ~TokenValid(tv_last[1].by, tv_last[1].config) =>
                 tv_last[1].out = NullResult
    /\ RequestUnauthenticated =>
          rq_last[1].response =
              TRPCError("UNAUTHORIZED", "Missing or invalid execution token")

\* C6 witness: a Bearer request whose token was signed with another key is
\* answered UNAUTHORIZED
C6_Witness ==
    /\ RequestUnauthenticated
    /\ rq_last[1].scheme = "Bearer"
    /\ tok[1].wellFormed /\ tok[1].intact
    /\ tok[1].sigKey # bp_config[1].tokenConfig.secretKey
    /\ rq_last[1].response.code = "UNAUTHORIZED"

(***************************************************************************)
(* Claims about errors at the dispatch boundary (Spec).                    *)
(***************************************************************************)
FailureCodes ==
    {"NOT_INITIALIZED", "NOT_FOUND", "FORBIDDEN", "RATE_LIMITED", "EXECUTION_ERROR"}

\* the dispatch settled with a ToolBridgeResult whose failure code, if any,
\* is one of the five, EXECUTION_ERROR exactly when registry.executeTool threw
DispatchReturnsResult(d) ==
    /\ d.settled = "resolved"
    /\ ~d.result.success => d.result.code \in FailureCodes
    /\ IsDefined(d.thrown) <=>
          (~d.result.success /\ d.result.code = "EXECUTION_ERROR")

\* C11 as claimed: executeToolWithChecks never rejects, a failed result
\* carries one of the five codes, and EXECUTION_ERROR carries the message of
\* whatever the executor or the input validation threw.
C11_FailureCarriesOriginalMessage ==
    IsDefined(bd_last) =>
        /\ DispatchReturnsResult(bd_last[1])
        /\ IsDefined(bd_last[1].thrown) =>
              bd_last[1].result.message = bd_last[1].thrown[1].value

\* C11 as amended: EXECUTION_ERROR carries the thrown Error's message, and
\* the fixed text "Unknown error" when what was thrown is no Error.
C11_FailureCarriesErrorMessageOrUnknown ==
    IsDefined(bd_last) =>
        /\ DispatchReturnsResult(bd_last[1])
        /\ IsDefined(bd_last[1].thrown) =>
              bd_last[1].result.message =
                  (IF bd_last[1].thrown[1].isError
                   THEN bd_last[1].thrown[1].value ELSE "Unknown error")

\* C11 witness: an executor that throws a value that is no Error is answered
\* EXECUTION_ERROR with the message "Unknown error"
C11_Witness ==
    /\ IsDefined(bd_last)
    /\ IsDefined(bd_last[1].thrown)
    /\ ~bd_last[1].thrown[1].isError
    /\ bd_last[1].executorCalls = 1
    /\ bd_last[1].result.code = "EXECUTION_ERROR"
    /\ bd_last[1].result.message = "Unknown error"

(***************************************************************************)
(* Claims about the orchestrator (SpecCodeMode).                           *)
(***************************************************************************)

\* so far no cleanup() was called and no promise of the provider rejected
NoCleanupNoRejection ==
    /\ cm_events["sandboxCleanup"] = 0
    /\ cm_events["rejections"] = 0

\* C12: over any sequence or interleaving of initialize() calls, also with a
\* second call made while the first is in flight, sandboxProvider.initialize
\* and bridgeProtocol.initialize are each invoked exactly once, the sandbox
\* provider first.
C12_InitializeInvokesEachOnce ==
    NoCleanupNoRejection =>
        /\ cm_events["sandboxInitialize"] <= 1
        /\ cm_events["protocolInitialize"] <= cm_events["sandboxInitialize"]
        /\ cm_initialized =>
              /\ cm_events["sandboxInitialize"] = 1
              /\ cm_events["protocolInitialize"] = 1

\* C13: over any sequence of executeCode calls and any interleaving of
\* concurrent first calls, sandboxProvider.installDependencies is invoked
\* exactly once when the protocol needs dependencies (name trpc) and never
\* otherwise.
C13_DependenciesInstalledOnce ==
    NoCleanupNoRejection =>
        /\ cm_events["installDependencies"] <= 1
        /\ ~needsDependencies(cm_protocolName) =>
              cm_events["installDependencies"] = 0
        /\ (needsDependencies(cm_protocolName)
              /\ cm_events["sandboxExecuteCode"] > 0) =>
              cm_events["installDependencies"] = 1

C15_TokenRejectedAfterTimeout ==
    (/\ IsDefined(tv_last)
     /\ IsDefined(ex_config)
     /\ IsDefined(ex_config[1].timeoutMs)
     /\ now > tok_issue[1].at + ex_config[1].timeoutMs[1]) =>
        ~Accepted(tv_last[1])

(***************************************************************************)
(* C16: concurrent executeCode invocations on one orchestrator share no    *)
(* per-execution state.  Every invocation that passes the initialized      *)
(* check mints exactly one token and no other step mints one; two          *)
(* invocations in flight hold different tokens; the stub an invocation     *)
(* submits to the sandbox carries its own token; and the toolCalls it      *)
(* returns are parsed from the output of its own submission.               *)
(***************************************************************************)
Minted(events) == events["createExecutionToken"]

ExecuteCodeBegins(c) ==
    /\ cm_call[c].pc = "idle"
    /\ cm_call'[c].op = "executeCode"
    /\ cm_call'[c].pc = "createExecutionToken"
    /\ cm_n' = cm_n + 1

InFlight(c) ==
    cm_call[c].pc \in {"createExecutionToken", "installSandboxDependencies",
                       "sandboxExecuteCode"}

OwnTokenOnly ==
    /\ \A c \in CallerIds :
          cm_call[c].op = "executeCode" =>
              /\ cm_call[c].token <= Minted(cm_events)
              /\ cm_call[c].submitted \in {0, cm_call[c].token}
              /\ cm_call[c].trace \in {0, cm_call[c].token}
              /\ (cm_call[c].pc = "sandboxExecuteCode" =>
                      cm_call[c].submitted = cm_call[c].token)
              /\ (cm_call[c].outcome = "resolved" =>
                      /\ cm_call[c].token > 0
                      /\ cm_call[c].trace = cm_call[c].token)
    /\ \A c, d \in CallerIds :
          (c # d /\ InFlight(c) /\ InFlight(d)) =>
              cm_call[c].token # cm_call[d].token

MintsOncePerInvocation ==
    Minted(cm_events') - Minted(cm_events) =
        Cardinality({c \in CallerIds : ExecuteCodeBegins(c)})

C16_InvocationsShareNoState ==
    []OwnTokenOnly /\ [][MintsOncePerInvocation]_vars

\* two invocations overlap in the sandbox, each with the stub of its own
\* token
C16_Witness ==
    /\ \A c \in CallerIds :
          /\ cm_call[c].op = "executeCode"
          /\ cm_call[c].pc = "sandboxExecuteCode"
          /\ cm_call[c].submitted = cm_call[c].token
    /\ cm_call["p"].token # cm_call["q"].token
    /\ Minted(cm_events) = 2

(***************************************************************************)
(* C17: trace reconstruction yields one record per call-start marker with  *)
(* a valid JSON payload, in the order of the markers; the record has       *)
(* success = true and a reported duration when a call-success marker for   *)
(* its tool follows (and no call-error marker does), success = false and   *)
(* a reported error when a call-error marker follows (and no call-success  *)
(* marker does), and success = false, durationMs = 0, output = null when   *)
(* neither follows.  Terminal markers count when their payload is a JSON   *)
(* object.                                                                 *)
(***************************************************************************)
IsMarker(line) == line.kind \in MarkerKinds

ValidCall(line) == line.kind = "TOOL_CALL" /\ ~JSONparse(line.payload).threw

CallPositions(lines) == {i \in DOMAIN lines : ValidCall(lines[i])}

\* the position of the k-th call-start marker with a valid payload
PositionOf(lines, k) ==
    CHOOSE i \in CallPositions(lines) :
        Cardinality({j \in CallPositions(lines) : j <= i}) = k

IsObject(payload) == ~JSONparse(payload).threw /\ ~JSONparse(payload).isNull

Later(lines, i, kind) ==
    {j \in DOMAIN lines : /\ j > i
                          /\ lines[j].kind = kind
                          /\ lines[j].tool = lines[i].tool
                          /\ IsObject(lines[j].payload)}

C17_OneRecordPerCallWithItsOutcome ==
    IsDefined(tr_result) =>
        LET recs == tr_result[1].toolCalls
        IN  /\ Len(recs) = Cardinality(CallPositions(tr_output))
            /\ \A k \in 1..Len(recs) :
                 LET i == PositionOf(tr_output, k)
                     S == Later(tr_output, i, "TOOL_RESULT")
                     E == Later(tr_output, i, "TOOL_ERROR")
                 IN  /\ recs[k].tool = tr_output[i].tool
                     /\ recs[k].input = tr_output[i].payload
                     /\ (S # {} /\ E = {}) =>
                            /\ recs[k].success
                            /\ \E j \in S :
                                 recs[k].durationMs =
                                     OrZero(JSONparse(tr_output[j].payload).durationMs)
                     /\ (E # {} /\ S = {}) =>
                            /\ ~recs[k].success
                            /\ \E j \in E :
                                 /\ recs[k].error = JSONparse(tr_output[j].payload).error
                                 /\ recs[k].durationMs =
                                     OrZero(JSONparse(tr_output[j].payload).durationMs)
                     /\ (S = {} /\ E = {}) =>
                            /\ ~recs[k].success
                            /\ recs[k].durationMs = 0
                            /\ recs[k].output = "null"

(***************************************************************************)
(* C18: a marker line whose payload is not valid JSON, and a result or     *)
(* error marker with no earlier call marker for its tool, changes nothing: *)
(* the records and the clean output are those of the output without that   *)
(* line, and the clean output holds no marker line.                        *)
(***************************************************************************)
Unusable(lines, i) ==
    /\ IsMarker(lines[i])
    /\ \/ JSONparse(lines[i].payload).threw
       \/ /\ lines[i].kind \in {"TOOL_RESULT", "TOOL_ERROR"}
          /\ ~\E j \in 1..(i - 1) :
                lines[j].kind = "TOOL_CALL" /\ lines[j].tool = lines[i].tool

\* the string without its i-th line
Without(lines, i) ==
    IF Len(lines) = 1 THEN EmptyString
    ELSE SubSeq(lines, 1, i - 1) \o SubSeq(lines, i + 1, Len(lines))

C18_UnusableMarkerIsAsIfAbsent ==
    IsDefined(tr_result) =>
        /\ \A i \in DOMAIN tr_output :
             Unusable(tr_output, i) =>
                LET without == parseToolCallsFromOutput(Without(tr_output, i))
                IN  /\ tr_result[1].toolCalls = without.toolCalls
                    /\ tr_result[1].cleanOutput = without.cleanOutput
        /\ \A i \in DOMAIN tr_result[1].cleanOutput :
             ~IsMarker(tr_result[1].cleanOutput[i])

\* an unreadable call marker, then a readable one and a line of text: one
\* record and the text
C18_Witness ==
    /\ IsDefined(tr_result)
    /\ Len(tr_output) = 3
    /\ tr_output[1].kind = "TOOL_CALL"
    /\ JSONparse(tr_output[1].payload).threw
    /\ ValidCall(tr_output[2])
    /\ tr_output[3] = TextLine(<<"x">>)
    /\ Len(tr_result[1].toolCalls) = 1
    /\ tr_result[1].cleanOutput = <<TextLine(<<"x">>)>>

(***************************************************************************)
(* C19: the output executeCode returns is the sandbox output without its   *)
(* marker lines, the other lines in their order, and the raw sandbox       *)
(* output when that leaves nothing.                                        *)
(***************************************************************************)
IsText(line) == line.kind = "text"

NonMarkers(lines) == join(SelectSeq(lines, IsText))

C19_OutputIsNonMarkerLinesOrRaw ==
    IsDefined(tr_result) =>
        tr_result[1].output =
            IF NonMarkers(tr_output) = EmptyString THEN tr_output
            ELSE NonMarkers(tr_output)

\* C19 as the code has it: white space and line breaks are also removed
\* from both ends of what is left, and the raw output is returned when that
\* is empty
C19_OutputIsTrimmedNonMarkerLinesOrRaw ==
    IsDefined(tr_result) =>
        tr_result[1].output =
            IF trim(NonMarkers(tr_output)) = EmptyString THEN tr_output
            ELSE trim(NonMarkers(tr_output))

\* a marker line is removed and the ends are trimmed
C19_Witness ==
    /\ IsDefined(tr_result)
    /\ \E i \in DOMAIN tr_output : IsMarker(tr_output[i])
    /\ tr_result[1].output # tr_output
    /\ tr_result[1].output # NonMarkers(tr_output)
    /\ tr_result[1].output = <<TextLine(<<"x">>)>>

(***************************************************************************)
(* C20: every call of a generated proxy emits one call-start marker, then  *)
(* makes the request, then emits one terminal marker: call-success when    *)
(* the request succeeded and the call returns, call-error when it failed   *)
(* and the call throws.                                                    *)
(***************************************************************************)
Called(call) == call.tool # ""

Settled(call) == call.settled # "none"

MarkersOf(call) ==
    IF ~Settled(call) THEN call.events = <<"TOOL_CALL", "request">>
    ELSE \/ /\ call.settled = "returned"
            /\ call.request = "succeeded"
            /\ call.events = <<"TOOL_CALL", "request", "TOOL_RESULT">>
         \/ /\ call.settled = "threw"
            /\ call.request = "failed"
            /\ call.events = <<"TOOL_CALL", "request", "TOOL_ERROR">>

C20_EachCallEmitsStartThenOneTerminal ==
    \A c \in CallerIds : Called(st_call[c]) => MarkersOf(st_call[c])

\* what the proxies do: the same for every call whose input JSON.stringify
\* accepts; a call with another input throws before any marker or request
C20_SerializableCallEmitsStartThenOneTerminal ==
    \A c \in CallerIds :
        Called(st_call[c]) =>
            IF JSONstringify(st_call[c].input).threw
            THEN /\ st_call[c].settled = "threw"
                 /\ st_call[c].request = "none"
                 /\ st_call[c].events = <<>>
            ELSE MarkersOf(st_call[c])

\* one call has returned after its call-success marker and the other has
\* thrown after its call-error marker, both lines being on the console
C20_Witness ==
    /\ st_call["p"].settled = "returned"
    /\ st_call["p"].events = <<"TOOL_CALL", "request", "TOOL_RESULT">>
    /\ st_call["q"].settled = "threw"
    /\ st_call["q"].input = "serializable"
    /\ st_call["q"].events = <<"TOOL_CALL", "request", "TOOL_ERROR">>
    /\ \E i, j \in DOMAIN st_console :
          /\ st_console[i].kind = "TOOL_RESULT"
          /\ st_console[i].tool = st_call["p"].tool
          /\ st_console[j].kind = "TOOL_ERROR"
          /\ st_console[j].tool = st_call["q"].tool

(***************************************************************************)
(* C21: the bridge protocol's lifecycle is one-way.  Once initialize has   *)
(* bound a registry and a config, no later step changes them: initialize   *)
(* with another config fails and leaves the binding as it was.             *)
(***************************************************************************)
ProtocolInitialized == IsDefined(bp_config) /\ IsDefined(bp_registry)

C21_ReinitializeLeavesBindingUnchanged ==
    [][ProtocolInitialized => (bp_config' = bp_config /\ bp_registry' = bp_registry)]_vars

(***************************************************************************)
(* C22: executeTool rejects with an unknown-tool error for a name that is  *)
(* not registered and with an invalid-input error for an input the tool's  *)
(* input schema does not accept, without invoking the executor; for an     *)
(* input the schema accepts the executor is invoked once, with the parsed  *)
(* input and the given context.                                            *)
(***************************************************************************)
Executed == IsDefined(rg_last) /\ rg_last[1].op = "executeTool"

InputParse(e) == zodParse(get(tools, e.name)[1].inputSchema, e.input)

OutputValidated(e) ==
    /\ has(tools, e.name)
    /\ OrElse(rg_options.validateOutputs, TRUE)
    /\ IsDefined(get(tools, e.name)[1].outputSchema)
    /\ InputParse(e).kind = "ok"
    /\ e.behaviour.kind = "returns"

C23_ReturnsRawResult ==
    (Executed /\ OutputValidated(rg_last[1])) =>
        /\ rg_last[1].out.settled = "resolved"
        /\ rg_last[1].out.value = rg_last[1].behaviour.value
(***************************************************************************)
(* Claims about the token round trip (SpecRoundTrip).                      *)
(***************************************************************************)
\* a verification, at the clock reading of the issue, of an unaltered token
\* under the config it was issued with
FreshVerification == SameConfigVerification /\ now = tok_issue[1].at

\* C24 as claimed: for every context and token config, verifying a freshly
\* issued token with the same config returns a context whose userId,
\* sessionId, organizationId, scopes and metadata equal those of the context
\* it was issued for, optional fields absent at issue being absent.
C24_FreshTokenReturnsIssuedContext ==
    FreshVerification => tv_last[1].out = ContextResult(tok_issue[1].context)

\* metadata m as JSON text carries it: no entry for an undefined value, the
\* ISO string for a Date, every other entry as it is
CarriedAsJson(issued, returned) ==
    /\ \A e \in issued :
          \/ e.type = "undefined" /\ ~\E r \in returned : r.key = e.key
          \/ e.type = "Date" /\ StringEntry(e.key, e.v) \in returned
          \/ e.type = "string" /\ e \in returned
    /\ \A r \in returned : \E e \in issued : e.key = r.key

\* C24 as amended: under a config whose lifetime is at least one second the
\* fresh verification returns a context with the issued userId, sessionId,
\* organizationId and scopes, an absent optional field absent, and the
\* issued metadata as JSON carries it; under a lifetime of 0 it returns null.
C24_FreshTokenReturnsJsonOfIssuedContext ==
    FreshVerification =>
        LET issued == tok_issue[1].context
            out    == tv_last[1].out
        IN  IF IssuedLifetime >= 1
            THEN /\ out.kind = "context"
                 /\ out.context.userId = issued.userId
                 /\ out.context.sessionId = issued.sessionId
                 /\ out.context.organizationId = issued.organizationId
                 /\ out.context.scopes = issued.scopes
                 /\ IsDefined(out.context.metadata) <=> IsDefined(issued.metadata)
                 /\ IsDefined(issued.metadata) =>
                        CarriedAsJson(issued.metadata[1], out.context.metadata[1])
            ELSE out = NullResult

\* C24 witness: a fresh token issued without organizationId and with
\* metadata is verified under its config and comes back with both as issued
C24_Witness ==
    /\ FreshVerification
    /\ Accepted(tv_last[1])
    /\ tok_issue[1].context.organizationId = Undefined
    /\ IsDefined(tok_issue[1].context.metadata)
    /\ tv_last[1].out.context = tok_issue[1].context

(***************************************************************************)
(* Claims about registration and lookup (SpecRegistry).                    *)
(***************************************************************************)
\* the registrations so far of the name `name`, as positions of rg_history
RegistrationsOf(name) == {i \in 1..Len(rg_history) : rg_history[i].name = name}

FirstRegistration(name) ==
    CHOOSE i \in RegistrationsOf(name) : \A j \in RegistrationsOf(name) : i <= j

LastRegistration(name) ==
    CHOOSE i \in RegistrationsOf(name) : \A j \in RegistrationsOf(name) : j <= i

\* C25: after any sequence of register calls, getToolNames lists every
\* registered name exactly once in order of first registration, has(name) is
\* true exactly for those names, and get(name) returns the most recently
\* registered definition for that name.
C25_LookupsReflectRegistrations ==
    LET names == getToolNames(tools)
    IN  /\ \A i, j \in 1..Len(names) : names[i] = names[j] => i = j
        /\ {names[i] : i \in 1..Len(names)}
              = {rg_history[i].name : i \in 1..Len(rg_history)}
        /\ \A i, j \in 1..Len(names) :
              i < j => FirstRegistration(names[i]) < FirstRegistration(names[j])
        /\ \A name \in ToolNames \cup {"unknownTool"} :
              /\ has(tools, name) <=> RegistrationsOf(name) # {}
              /\ get(tools, name)
                    = IF RegistrationsOf(name) = {} THEN Undefined
                      ELSE Some(rg_history[LastRegistration(name)])

\* C25 witness: a name is registered, then another name, then the first
\* name again with another definition
C25_Witness ==
    /\ Len(rg_history) = 3
    /\ rg_history[1].name = rg_history[3].name
    /\ rg_history[1] # rg_history[3]
    /\ rg_history[2].name # rg_history[1].name
    /\ getToolNames(tools) = <<rg_history[1].name, rg_history[2].name>>
    /\ get(tools, rg_history[1].name) = Some(rg_history[3])

\* the method declarations of a generated text, in the order of the text
MethodDeclarations(text) == SelectSeq(text, LAMBDA l : l.kind = "method")

Returned == IsDefined(tr_result)

\* record r of the trace is the record of the proxy call k
RecordOf(r, k) ==
    /\ r.tool = k.tool
    /\ k.outcome = "returned" => r.success /\ r.durationMs = 5
    /\ k.outcome = "threw" => ~r.success /\ r.durationMs = 5 /\ IsDefined(r.error)
    /\ k.outcome = "pending" => ~r.success /\ r.durationMs = 0 /\ ~IsDefined(r.error)

\* the lines the proxies wrote: a start per call and an end per settled call
ProxyLineCount ==
    Len(run_calls)
        + Cardinality({i \in 1..Len(run_calls) : run_calls[i].outcome # "pending"})

NoUserPrints == Len(st_console) = ProxyLineCount

\* no two of the run's proxy calls were of the same tool
DistinctTools ==
    \A i, j \in 1..Len(run_calls) : run_calls[i].tool = run_calls[j].tool => i = j

\* C27: the trace returned by executeCode is a faithful record of the tool
\* calls made inside the execution: its records are those of the calls made
\* through a proxy, one each and in order, and text the user code prints
\* itself neither adds a record nor changes the success, duration or error
\* of one.  (Runs with two calls of one tool are left to C28.)
C27_TraceRecordsExactlyTheProxyCalls ==
    (Returned /\ DistinctTools) =>
        LET toolCalls == tr_result[1].toolCalls
        IN  /\ Len(toolCalls) = Len(run_calls)
            /\ \A i \in 1..Len(run_calls) : RecordOf(toolCalls[i], run_calls[i])

\* C28: for any interleaving of proxy calls within one execution whose code
\* prints nothing itself, every call that completed has its own record, whose
\* success equals that call's outcome.
C28_EachCompletedCallHasItsRecord ==
    (Returned /\ NoUserPrints) =>
        LET toolCalls == tr_result[1].toolCalls
        IN  /\ Len(toolCalls) = Len(run_calls)
            /\ \A i \in 1..Len(run_calls) :
                  run_calls[i].outcome # "pending" =>
                      /\ toolCalls[i].tool = run_calls[i].tool
                      /\ toolCalls[i].success = (run_calls[i].outcome = "returned")

(***************************************************************************)
(* Claims about concurrent dispatches and bursts (SpecDispatch).           *)
(***************************************************************************)
\* C29: the rate limiter never undercounts under concurrency: for any
\* interleaving of concurrent dispatches by one user against a limit n >= 1,
\* at most n of the dispatches that fall in one window pass the rate-limit
\* check.
C29_AtMostLimitPassPerWindow == dp_passed <= rl_max

\* C29 witness: with a dispatch that passed still awaiting its tool, the
\* limit is used up and another dispatch of the window is denied
C29_Witness ==
    /\ dp_passed = rl_max
    /\ IsDefined(rl_last)
    /\ ~rl_last[1].result.allowed
    /\ \E c \in CallerIds : dp_call[c] = "executeTool"

\* the dispatches allowed in the 60 seconds that start with the i-th allowed
\* dispatch
AllowedWithinMinuteOf(i) ==
    {j \in 1..Len(dp_allowedAt) :
        /\ dp_allowedAt[i] <= dp_allowedAt[j]
        /\ dp_allowedAt[j] <= dp_allowedAt[i] + 60000}

\* C30: the fixed-window limiter bounds bursts at twice the limit: a window
\* ends 60 seconds after the call that opened it, and in any interval of 60
\* seconds a user with limit n >= 1 is allowed at most 2n calls.
C30_BurstAtMostTwiceLimit ==
    /\ (IsDefined(rl_last) /\ rl_last[1].prior = 0) =>
          rateLimitStore[DispatchUser]
              = Some([count |-> 1, resetTime |-> rl_last[1].at + 60000])
    /\ (IsDefined(rl_last) /\ rl_last[1].prior > 0) =>
          rl_last[1].at <= rateLimitStore[DispatchUser][1].resetTime
    /\ \A i \in 1..Len(dp_allowedAt) :
          Cardinality(AllowedWithinMinuteOf(i)) <= 2 * rl_max

\* C30 witness: more than n calls are allowed within 60 seconds, the last
\* ones in a window opened after the first one's window ended
C30_Witness ==
    /\ \E i \in 1..Len(dp_allowedAt) : Cardinality(AllowedWithinMinuteOf(i)) > rl_max
    /\ dp_passed = rl_max

(***************************************************************************)
(* Claims about what a dispatch changes (Spec).                            *)
(***************************************************************************)
\* the step is a dispatch, recorded in bd_last'
Dispatched == bd_n' = bd_n + 1

\* the quota of `user` after one more unit is consumed at the time of the step
OneUnitConsumed(user) ==
    IF InWindow(rateLimitStore, user, now)
    THEN rateLimitStore'[user] =
            Some([count     |-> rateLimitStore[user][1].count + 1,
                  resetTime |-> rateLimitStore[user][1].resetTime])
    ELSE rateLimitStore'[user] = Some([count |-> 1, resetTime |-> now + 60000])

DispatchFrame ==
    Dispatched =>
        LET d == bd_last'[1]
        IN  /\ \A u \in UserIds :
                  u # d.context.userId => rateLimitStore'[u] = rateLimitStore[u]
            /\ Outcome(d) \in {"NOT_FOUND", "FORBIDDEN", "RATE_LIMITED"} =>
                  rateLimitStore' = rateLimitStore
            /\ (d.enabled /\ Outcome(d) \in {"OK", "EXECUTION_ERROR"}) =>
                  OneUnitConsumed(d.context.userId)

\* C31: a dispatch changes at most the calling user's rate-limit entry; one
\* that ends in NOT_FOUND, FORBIDDEN or RATE_LIMITED changes no entry at all;
\* one that passes the rate-limit check consumes one unit of the user's
\* quota whether the executor then succeeds or throws.
C31_DispatchChangesOnlyCallersQuota == [][DispatchFrame]_vars

\* C31 witness: a dispatch passed the check and its executor threw; the
\* user's entry counts it with an earlier one, next to another user's entry
C31_Witness ==
    /\ IsDefined(bd_last)
    /\ bd_last[1].enabled
    /\ Outcome(bd_last[1]) = "EXECUTION_ERROR"
    /\ bd_last[1].executorCalls = 1
    /\ rateLimitStore[bd_last[1].context.userId][1].count = 2
    /\ \A u \in UserIds : IsDefined(rateLimitStore[u])

(***************************************************************************)
(* Claims about the two dispatch paths side by side (SpecPaths).           *)
(***************************************************************************)
BaseRateLimited(d) == ~d.base.success /\ d.base.code = "RATE_LIMITED"

RouterRateLimited(d) == d.trpc.code = "TOO_MANY_REQUESTS"

\* C32: both dispatch paths apply rate limiting under exactly the same
\* configurations: for every value of enableRateLimiting (true, false or
\* unset) and of defaultRateLimit, executeToolWithChecks and the tRPC router
\* either both rate-limit a call of a given call history or both let it
\* through; with enableRateLimiting false neither returns a rate-limit error.
C32_PathsRateLimitAlike ==
    IsDefined(bd_last) =>
        /\ BaseRateLimited(bd_last[1]) <=> RouterRateLimited(bd_last[1])
        /\ bp_config[1].enableRateLimiting = Some(FALSE) =>
              ~BaseRateLimited(bd_last[1]) /\ ~RouterRateLimited(bd_last[1])

(***************************************************************************)
(* Claims about the default audience (SpecToken).                          *)
(***************************************************************************)
\* an issued, unaltered and unexpired token is verified by the other
\* component's verifier under the config it was issued with
CrossVerification ==
    /\ IsDefined(tv_last)
    /\ IsDefined(tok_issue)
    /\ tv_last[1].by # tok_issue[1].by
    /\ tv_last[1].config = Some(tok_issue[1].config)
    /\ epoch(now) < tok[1].payload.exp

\* C33: the default audience is one fixed constant shared by every issuer and
\* verifier: a token issued with no configured audience by the token utility
\* is accepted by the tRPC protocol's verifier configured with the same
\* secret and no audience, and a token issued by the tRPC protocol is
\* accepted by the token utility's verifier in the same way.
C33_DefaultAudienceShared ==
    (CrossVerification /\ tok_issue[1].config.audience = Undefined) =>
        Accepted(tv_last[1])

====
